---- MODULE Spec2Model ----
(***************************************************************************)
(* A model of the arbitrage pipeline of mev_arbitrage_bot:                 *)
(*   - the block event feed     (blockchain/listener.rs)                   *)
(*   - the price oracle         (price/mod.rs)                             *)
(*   - the opportunity scanner  (scanner/mod.rs, dex/mod.rs)               *)
(*   - the strategy engine      (strategy/mod.rs)                          *)
(*   - the transaction executor (transaction/executor.rs, mev_share)       *)
(*   - the gas optimizer        (gas/mod.rs)                               *)
(*   - the transaction builder  (transaction/builder.rs)                   *)
(*   - retry_with_backoff       (utils/mod.rs)                             *)
(*   - one producer task and its processing task, step by step             *)
(*                              (blockchain/listener.rs)                   *)
(* Each component has its own specifications (FeedSpec, PriceSpec,         *)
(* FreshSpec, RatioSpec, ScanSpec, IsolationSpec, ScanLoopSpec, StratSpec, *)
(* TieSpec, ProfitSpec, PathSpec, ExecSpec, RouteSpec, WaitSpec,           *)
(* WaitFairSpec, GasSpec, GasSeqSpec, BuildSpec, RetrySpec, RetryFairSpec, *)
(* DeliverySpec, PipeSpec, StatusSpec; ScenarioSpec and RecoverSpec run    *)
(* two components together) over the module's variables; the variables of  *)
(* the components a specification does not explore keep their initial      *)
(* values.                                                                 *)
(***************************************************************************)
EXTENDS Integers, Sequences, FiniteSets, TLC

(***************************************************************************)
(* Bounds of the model.                                                    *)
(***************************************************************************)
\* opportunities in the list given to evaluate_opportunities
MaxList == 3
\* background scanning loops that can be spawned
MaxLoops == 2
\* successful start() calls (each spawns one producer/consumer generation)
MaxStarts == 2
\* block numbers the block source hands to the producers, in total
MaxDeliveries == 2
\* the block source's numbers are 1..MaxBlock
MaxBlock == 2

\* mpsc::channel(100)
ChannelCapacity == 100

Gens == 1..MaxStarts
Blocks == 1..MaxBlock
\* tasks that call start() and stop() on the one feed object
Callers == {"c1", "c2"}

VARIABLES
    \* ---- block event feed: BlockchainEventListenerImpl ----
    alchemy_ws,        \* alchemy_provider is Some and has a ws() provider
    ws_client,         \* blockchain_client_ws is Some
    is_running,        \* is_running: RwLock<bool>
    task_handle,       \* task_handle: RwLock<Option<JoinHandle>>; 0 is None, g the producer of generation g
    lock_holder,       \* the caller holding the is_running write guard, or "none"
    pc,                \* where each caller is inside start()
    ngen,              \* generations (channel, producer task, processing task) spawned so far
    producer,          \* state of each generation's producer task
    consumer,          \* state of each generation's processing task
    chan,              \* the mpsc queue of each generation
    last_block_number, \* the polling loop's last_block_number
    cur,               \* the block number a processing task is in process_block for (0: none)
    last_invoked,      \* history: the block number of the latest process_block invocation (0: none yet)
    delivered,         \* history: how many numbers the block source has handed over
    stopped,           \* history: the generations for which an effective stop() has returned
    last_call,         \* history: the last lifecycle call and the flag it found: "none", "start_running", "start_stopped", "stop_running", "stop_stopped"
    \* ---- price oracle: PriceOracle ----
    prices,            \* prices: RwLock<HashMap<Address, TokenPrice>>
    sources,           \* sources: RwLock<Vec<PriceSource>>
    oracle_last_update,\* last_update: RwLock<Instant>, in seconds
    now,               \* Instant::now(), in seconds
    last_samples,      \* history: token_prices of every token in the latest update_prices pass
    last_read,         \* history: the latest get_price_usd / get_price_eth call and what it returned
    last_quote,        \* history: the latest get_price_in_token call and what it returned
    \* ---- opportunity scanner: OpportunityScannerImpl and DexInterfaces ----
    dex_order,         \* the iteration order of DexInterfaces.interfaces (a HashMap)
    opportunities,     \* the Vec the latest scan() returned
    last_quotes,       \* history: what each venue answered for each pair in the latest scan()
    scan_prices,       \* history: the oracle's prices when the latest scan() returned
    is_scanning,       \* is_scanning: Arc<RwLock<bool>>
    nloops,            \* background loops spawned so far
    scan_loop,         \* where each background loop is: "none", "checking", "scanning", "sleeping", "ended"
    last_scan_call,    \* history: the latest start/stop_continuous_scanning call, the flag it found, and a bit that flips with every call
    \* ---- strategy engine: StrategyEngineImpl ----
    eval_input,        \* history: the list given to the latest evaluate_opportunities call
    eval_gas,          \* history: <<token_path.len(), estimated_gas>> of every opportunity that call's loop recomputed
    eval_result,       \* the Option that call returned: <<>> is None, <<op>> is Some(op)
    calc_call,         \* the last calculate_expected_profit call and what it returned
    path_call,         \* the last find_optimal_path call and what it returned
    min_profit_threshold, \* config.arbitrage.min_profit_threshold, in USD
    \* ---- transaction executor: TransactionExecutorImpl, MevShareClient and the node ----
    wallet,            \* wallet: Option<LocalWallet> is Some
    mev_share_enabled, \* config.mev_share.enabled
    node,              \* the transactions the node knows, by hash: sender, nonce, gas price, status
    sent,              \* history: every payload handed to a submission channel, in order
    exec_call,         \* history: the latest execute_transaction / cancel_transaction call and what it returned
    \* ---- one wait_for_transaction call ----
    tx_now,            \* Instant::now(), in seconds
    wait_pc,           \* where the call is: "idle", "check", "poll", "sleep", "done"
    wait_hash,         \* tx_hash
    wait_timeout,      \* timeout, in seconds
    start_time,        \* start_time
    wake_at,           \* when the sleep ends
    wait_result,       \* what the call returned
    \* ---- gas optimizer: GasOptimizerImpl ----
    gas_strategy,      \* config.gas.strategy
    current_gas_price, \* current_gas_price: RwLock<U256>
    current_base_fee,  \* current_base_fee: RwLock<U256>
    current_priority_fee, \* current_priority_fee: RwLock<U256>
    gas_last_update,   \* last_update: RwLock<Instant>, in seconds
    gas_now,           \* Instant::now(), in seconds
    refresh_starts,    \* history: when each update_gas_price_estimate call began
    gcall,             \* where each task is inside its call
    gas_result,        \* history: what the latest call to return returned
    \* ---- transaction builder: TransactionBuilderImpl ----
    contract_manager,  \* contract_manager: "none", or a manager that is "undeployed" (no address) or "deployed"
    overflow_checks,   \* the binary was built with integer overflow checks
    build_call,        \* history: the latest build_arbitrage_transaction call and how it ended
    \* ---- one retry_with_backoff call ----
    retry_pc,          \* where the call is: "idle", "call", "sleep", "done"
    max_retries,       \* max_retries
    initial_backoff,   \* initial_backoff, in seconds
    retries,           \* retries
    backoff,           \* backoff, in seconds
    outcomes,          \* history: whether each invocation of f returned Ok, in order
    slept,             \* history: the duration of each sleep, in order
    retry_result,      \* what the call returned: Ok or Err, and of which invocation
    \* ---- one producer task and its processing task (listener.rs, start) ----
    feed_kind,         \* the producer's branch: "stream" (a block subscription) or "poll" (HTTP polling)
    blocks_left,       \* the blocks the block source has still to produce
    height,            \* the number of the latest block
    prod_pc,           \* where the producer is: "next", "send", "sleep", "ended"
    holding,           \* the block_number the producer is sending (0: none)
    poll_last,         \* the polling loop's last_block_number
    queue,             \* the mpsc queue
    emitted,           \* history: the numbers the producer took to tx.send, in order
    enqueued,          \* history: the numbers that entered the queue, in order
    cons_pc,           \* where the processing task is: "recv", "get_block", "update_prices", "scan", "gone", "ended"
    cur_block,         \* the block_number process_block runs for (0: none)
    handled,           \* history: the numbers process_block was invoked with, in order
    pb_trace,          \* history: the calls the latest process_block made, with their answers
    pb_result,         \* how the latest process_block ended: "none", "running", "ok", "err", "panic"
    \* ---- get_transaction_status as a function of the node's answers ----
    status_call        \* history: the latest get_transaction_status call, the node's answers and what it returned

feedVars == <<alchemy_ws, ws_client, is_running, task_handle, lock_holder, pc, ngen,
              producer, consumer, chan, last_block_number, cur, last_invoked, delivered,
              stopped, last_call>>

priceVars == <<prices, sources, oracle_last_update, now, last_samples, last_read, last_quote>>

scanVars == <<dex_order, opportunities, last_quotes, scan_prices, is_scanning, nloops, scan_loop, last_scan_call>>

stratVars == <<eval_input, eval_gas, eval_result, calc_call, path_call, min_profit_threshold>>

execVars == <<wallet, mev_share_enabled, node, sent, exec_call>>

\* the transaction side of the pipeline
waitVars == <<tx_now, wait_pc, wait_hash, wait_timeout, start_time, wake_at, wait_result>>

gasVars == <<gas_strategy, current_gas_price, current_base_fee, current_priority_fee,
             gas_last_update, gas_now, refresh_starts, gcall, gas_result>>

buildVars == <<contract_manager, overflow_checks, build_call>>

retryVars == <<retry_pc, max_retries, initial_backoff, retries, backoff, outcomes, slept,
               retry_result>>

pipeVars == <<feed_kind, blocks_left, height, prod_pc, holding, poll_last, queue, emitted,
              enqueued, cons_pc, cur_block, handled, pb_trace, pb_result>>

\* the components besides the decision side and the transaction side
statusVars == <<status_call>>

sideVars == <<retryVars, pipeVars, statusVars>>

txVars == <<execVars, waitVars, gasVars, buildVars, sideVars>>

vars == <<feedVars, priceVars, scanVars, stratVars, txVars>>

\* the variables of the other components
notFeedVars == <<priceVars, scanVars, stratVars, txVars>>
notPriceVars == <<feedVars, scanVars, stratVars, txVars>>
notScanVars == <<feedVars, stratVars, txVars>>
notStratVars == <<feedVars, priceVars, scanVars, txVars>>
decisionVars == <<feedVars, priceVars, scanVars, stratVars>>
notExecVars == <<decisionVars, waitVars, gasVars, buildVars, sideVars>>
notWaitVars == <<decisionVars, execVars, gasVars, buildVars, sideVars>>
notGasVars == <<decisionVars, execVars, waitVars, buildVars, sideVars>>
notBuildVars == <<decisionVars, execVars, waitVars, gasVars, sideVars>>
mainVars == <<decisionVars, execVars, waitVars, gasVars, buildVars>>
notRetryVars == <<mainVars, pipeVars, statusVars>>
notPipeVars == <<mainVars, retryVars, statusVars>>
notStatusVars == <<mainVars, retryVars, pipeVars>>

(***************************************************************************)
(* Block event feed                                                        *)
(***************************************************************************)

\* start_listener: the listener as constructed, before its first start()
FeedInit ==
    /\ alchemy_ws \in BOOLEAN
    /\ ws_client \in BOOLEAN
    /\ is_running = FALSE
    /\ task_handle = 0
    /\ lock_holder = "none"
    /\ pc = [c \in Callers |-> "idle"]
    /\ ngen = 0
    /\ producer = [g \in Gens |-> "none"]
    /\ consumer = [g \in Gens |-> "none"]
    /\ chan = [g \in Gens |-> <<>>]
    /\ last_block_number = [g \in Gens |-> 0]
    /\ cur = [g \in Gens |-> 0]
    /\ last_invoked = 0
    /\ delivered = 0
    /\ stopped = {}
    /\ last_call = "none"

\* the producer task still owns the queue's sender
TxAlive(g) == producer[g] \in {"subscribing", "streaming", "polling"}

\* the branch the producer task takes when it starts
ProducerEntry ==
    IF alchemy_ws \/ ws_client THEN "subscribing" ELSE "polling"

\* the early return of start(): is_running is already set
StartGuardMutant == FALSE

StartGuard == is_running

\* start(), up to the await of task_handle.write(): takes the is_running write
\* guard; returns if already running, else sets the flag, creates the queue and
\* spawns the producer and the processing task.
StartBegin(c) ==
    /\ pc[c] = "idle"
    /\ lock_holder = "none"
    /\ last_call' = IF is_running THEN "start_running" ELSE "start_stopped"
    /\ IF StartGuard
       THEN UNCHANGED <<is_running, task_handle, lock_holder, pc, ngen, producer,
                        consumer, chan, last_block_number, cur>>
       ELSE /\ ngen < MaxStarts
            /\ is_running' = TRUE
            /\ ngen' = ngen + 1
            /\ chan' = [chan EXCEPT ![ngen + 1] = <<>>]
            /\ producer' = [producer EXCEPT ![ngen + 1] = ProducerEntry]
            /\ last_block_number' = [last_block_number EXCEPT ![ngen + 1] = 0]
            /\ consumer' = [consumer EXCEPT ![ngen + 1] = "idle"]
            /\ cur' = [cur EXCEPT ![ngen + 1] = 0]
            /\ lock_holder' = c
            /\ pc' = [pc EXCEPT ![c] = "store_handle"]
            /\ UNCHANGED task_handle
    /\ UNCHANGED <<alchemy_ws, ws_client, last_invoked, delivered, stopped>>

\* start(), the rest: stores the producer's handle (the processing task's handle
\* is dropped, which detaches that task) and releases the guard.
StartFinish(c) ==
    /\ pc[c] = "store_handle"
    /\ lock_holder = c
    /\ task_handle' = ngen
    /\ lock_holder' = "none"
    /\ pc' = [pc EXCEPT ![c] = "idle"]
    /\ UNCHANGED <<alchemy_ws, ws_client, is_running, ngen, producer, consumer, chan,
                   last_block_number, cur, last_invoked, delivered, stopped, last_call>>

\* JoinHandle::abort on the producer task: a task that has finished is left as it is
Abort(st) == IF st \in {"subscribing", "streaming", "polling"} THEN "aborted" ELSE st

\* stop(): returns if not running, else clears the flag, takes the stored handle
\* and aborts that task.
Stop(c) ==
    /\ pc[c] = "idle"
    /\ lock_holder = "none"
    /\ last_call' = IF is_running THEN "stop_running" ELSE "stop_stopped"
    /\ IF ~is_running
       THEN UNCHANGED <<is_running, task_handle, producer, stopped>>
       ELSE /\ is_running' = FALSE
            /\ task_handle' = 0
            /\ producer' = [g \in Gens |->
                              IF g = task_handle THEN Abort(producer[g]) ELSE producer[g]]
            /\ stopped' = IF task_handle = 0 THEN stopped ELSE stopped \cup {task_handle}
    /\ UNCHANGED <<alchemy_ws, ws_client, lock_holder, pc, ngen, consumer, chan,
                   last_block_number, cur, last_invoked, delivered>>

\* subscribe_blocks() succeeds: the producer enters its stream loop
SubscribeOk(g) ==
    /\ producer[g] = "subscribing"
    /\ producer' = [producer EXCEPT ![g] = "streaming"]
    /\ UNCHANGED <<alchemy_ws, ws_client, is_running, task_handle, lock_holder, pc, ngen,
                   consumer, chan, last_block_number, cur, last_invoked, delivered, stopped,
                   last_call>>

\* subscribe_blocks() fails: the Alchemy branch unwraps the error (the task
\* panics), the WebSocket branch logs it and the task ends.
SubscribeFail(g) ==
    /\ producer[g] = "subscribing"
    /\ producer' = [producer EXCEPT ![g] = IF alchemy_ws THEN "panicked" ELSE "ended"]
    /\ UNCHANGED <<alchemy_ws, ws_client, is_running, task_handle, lock_holder, pc, ngen,
                   consumer, chan, last_block_number, cur, last_invoked, delivered, stopped,
                   last_call>>

\* the subscription stream yields a header with number n: the producer sends n
\* (tx.send waits while the queue is full)
StreamBlock(g, n) ==
    /\ producer[g] = "streaming"
    /\ delivered < MaxDeliveries
    /\ Len(chan[g]) < ChannelCapacity
    /\ chan' = [chan EXCEPT ![g] = Append(@, n)]
    /\ delivered' = delivered + 1
    /\ UNCHANGED <<alchemy_ws, ws_client, is_running, task_handle, lock_holder, pc, ngen,
                   producer, consumer, last_block_number, cur, last_invoked, stopped,
                   last_call>>

\* the subscription stream ends: the producer task returns
StreamEnd(g) ==
    /\ producer[g] = "streaming"
    /\ producer' = [producer EXCEPT ![g] = "ended"]
    /\ UNCHANGED <<alchemy_ws, ws_client, is_running, task_handle, lock_holder, pc, ngen,
                   consumer, chan, last_block_number, cur, last_invoked, delivered, stopped,
                   last_call>>

\* one round of the polling loop in which get_block_number returns h: h is sent
\* only when it is above last_block_number
PollHeight(g, h) ==
    /\ producer[g] = "polling"
    /\ delivered < MaxDeliveries
    /\ delivered' = delivered + 1
    /\ IF h > last_block_number[g]
       THEN /\ Len(chan[g]) < ChannelCapacity
            /\ last_block_number' = [last_block_number EXCEPT ![g] = h]
            /\ chan' = [chan EXCEPT ![g] = Append(@, h)]
       ELSE UNCHANGED <<last_block_number, chan>>
    /\ UNCHANGED <<alchemy_ws, ws_client, is_running, task_handle, lock_holder, pc, ngen,
                   producer, consumer, cur, last_invoked, stopped, last_call>>

\* the processing task: rx.recv() yields the head of the queue and
\* process_block(n) is invoked
ConsumerRecv(g) ==
    /\ consumer[g] = "idle"
    /\ chan[g] # <<>>
    /\ consumer' = [consumer EXCEPT ![g] = "processing"]
    /\ cur' = [cur EXCEPT ![g] = Head(chan[g])]
    /\ chan' = [chan EXCEPT ![g] = Tail(@)]
    /\ last_invoked' = Head(chan[g])
    /\ UNCHANGED <<alchemy_ws, ws_client, is_running, task_handle, lock_holder, pc, ngen,
                   producer, last_block_number, delivered, stopped, last_call>>

\* process_block returns (Ok or Err: the loop goes on either way)
ProcessBlockReturn(g) ==
    /\ consumer[g] = "processing"
    /\ consumer' = [consumer EXCEPT ![g] = "idle"]
    /\ cur' = [cur EXCEPT ![g] = 0]
    /\ UNCHANGED <<alchemy_ws, ws_client, is_running, task_handle, lock_holder, pc, ngen,
                   producer, chan, last_block_number, last_invoked, delivered, stopped,
                   last_call>>

\* rx.recv() yields None: the queue is empty and its sender is dropped
ConsumerEnd(g) ==
    /\ consumer[g] = "idle"
    /\ chan[g] = <<>>
    /\ producer[g] # "none"
    /\ ~TxAlive(g)
    /\ consumer' = [consumer EXCEPT ![g] = "ended"]
    /\ UNCHANGED <<alchemy_ws, ws_client, is_running, task_handle, lock_holder, pc, ngen,
                   producer, chan, last_block_number, cur, last_invoked, delivered, stopped,
                   last_call>>

FeedNext ==
    \/ \E c \in Callers : StartBegin(c) /\ UNCHANGED notFeedVars
    \/ \E c \in Callers : StartFinish(c) /\ UNCHANGED notFeedVars
    \/ \E c \in Callers : Stop(c) /\ UNCHANGED notFeedVars
    \/ \E g \in Gens : SubscribeOk(g) /\ UNCHANGED notFeedVars
    \/ \E g \in Gens : SubscribeFail(g) /\ UNCHANGED notFeedVars
    \/ \E g \in Gens, n \in Blocks : StreamBlock(g, n) /\ UNCHANGED notFeedVars
    \/ \E g \in Gens : StreamEnd(g) /\ UNCHANGED notFeedVars
    \/ \E g \in Gens, h \in Blocks : PollHeight(g, h) /\ UNCHANGED notFeedVars
    \/ \E g \in Gens : ConsumerRecv(g) /\ UNCHANGED notFeedVars
    \/ \E g \in Gens : ProcessBlockReturn(g) /\ UNCHANGED notFeedVars
    \/ \E g \in Gens : ConsumerEnd(g) /\ UNCHANGED notFeedVars


(***************************************************************************)
(* Price oracle                                                            *)
(***************************************************************************)

\* the tracked tokens; "ETH" is the token at Address::from_low_u64_be(0)
Tokens == {"ETH", "USDC"}
EthAddress == "ETH"

\* the sources create_oracle starts with
InitialSources == {"UniswapV2", "Sushiswap", "CoinGecko"}

\* what a source can answer when it answers. get_price_from_source returns a
\* Result<f64>; its bodies here are placeholders that return fixed dummy
\* prices, so the answers are inputs: one value per source, chosen so that a
\* pass can reject an outlier (998, 1000, 1050 at 1%) and can reject every
\* sample (1000 and 1050)
SourceVals(s) ==
    CASE s = "UniswapV2" -> {1000}
      [] s = "Sushiswap" -> {1050}
      [] s = "CoinGecko" -> {998}

\* config.security.max_price_deviation, in percent
MaxPriceDeviation == 1

\* ---- f64 values as reduced fractions <<numerator, denominator>> ----
Abs(x) == IF x < 0 THEN -x ELSE x

RECURSIVE GCD(_, _)
GCD(a, b) == IF b = 0 THEN a ELSE GCD(b, a % b)

Rat(n, d) ==
    IF n = 0 THEN <<0, 1>>
    ELSE LET g == GCD(Abs(n), Abs(d))
             sg == IF d < 0 THEN -1 ELSE 1
         IN <<sg * (n \div g), sg * (d \div g)>>

RatDiv(a, b) == Rat(a[1] * b[2], a[2] * b[1])
RatPos(a) == a[1] > 0
Zero == <<0, 1>>
One == <<1, 1>>

\* the token_prices maps a pass can collect from the sources in S: every
\* source either fails or answers one of its values
SampleMaps(S) ==
    UNION {{f \in [A -> UNION {SourceVals(s) : s \in A}] : \A s \in A : f[s] \in SourceVals(s)}
           : A \in SUBSET S}

\* prices.keys(): a HashMap's iteration order is arbitrary
Orders == {o \in [1..Cardinality(Tokens) -> Tokens] : \A i, j \in 1..Cardinality(Tokens) : o[i] = o[j] => i = j}

\* the values of a map, sorted (sort_by partial_cmp)
RECURSIVE SortedVals(_, _)
SortedVals(f, S) ==
    IF S = {} THEN <<>>
    ELSE LET m == CHOOSE s \in S : \A r \in S : f[s] <= f[r]
         IN <<f[m]>> \o SortedVals(f, S \ {m})

RECURSIVE SumVals(_, _)
SumVals(f, S) ==
    IF S = {} THEN 0
    ELSE LET m == CHOOSE s \in S : TRUE IN f[m] + SumVals(f, S \ {m})

\* calculate_median_price on a non-empty map
CalculateMedianPrice(f) ==
    LET sorted == SortedVals(f, DOMAIN f)
        len == Len(sorted)
        mid == len \div 2
    IN IF len % 2 = 0
       THEN Rat(sorted[mid] + sorted[mid + 1], 2)
       ELSE Rat(sorted[mid + 1], 1)

\* an is_price_within_deviation that compares the absolute difference, not the
\* percentage, with the threshold times 100
IsPriceWithinDeviationMutant(price, median) ==
    Abs(price * median[2] - median[1]) <= MaxPriceDeviation * 100 * median[2]

\* is_price_within_deviation: (price - median).abs() / median * 100.0 <=
\* max_price_deviation in f64 (a zero median gives NaN or infinity, which
\* compare false; a negative median gives a deviation <= 0)
IsPriceWithinDeviation(price, median) ==
    IF median[1] = 0 THEN FALSE
    ELSE IF median[1] < 0 THEN TRUE
    ELSE Abs(price * median[2] - median[1]) * 100 <= MaxPriceDeviation * median[1]

\* filtered_prices
FilteredPrices(f, median) ==
    LET keep == {s \in DOMAIN f : IsPriceWithinDeviation(f[s], median)}
    IN [s \in keep |-> f[s]]

\* a final_price that is always the median
FinalPriceMutant(filtered, median) == median

\* final_price: the median if nothing passed the filter, else the average
FinalPrice(filtered, median) ==
    IF DOMAIN filtered = {}
    THEN median
    ELSE Rat(SumVals(filtered, DOMAIN filtered), Cardinality(DOMAIN filtered))

\* the body of update_prices' loop for token t when a median exists: the
\* collected token_prices tp are not empty
UpdateTokenWithData(P, t, tp, tnow) ==
    LET median == CalculateMedianPrice(tp)
        filtered == FilteredPrices(tp, median)
        final == FinalPrice(filtered, median)
        P1 == [P EXCEPT ![t] = [price_usd |-> final,
                                price_eth |-> IF t = EthAddress THEN One ELSE @.price_eth,
                                sources |-> filtered,
                                last_update |-> tnow]]
        eth_price_usd == IF EthAddress \in DOMAIN P1 THEN P1[EthAddress].price_usd ELSE Zero
    IN IF t # EthAddress /\ RatPos(eth_price_usd)
       THEN [P1 EXCEPT ![t].price_eth = RatDiv(P1[t].price_usd, eth_price_usd)]
       ELSE P1

\* a loop body that stamps the token's last_update also when no source answered
UpdateTokenMutant(P, t, tp, tnow) ==
    IF DOMAIN tp = {}
    THEN [P EXCEPT ![t].last_update = tnow]
    ELSE UpdateTokenWithData(P, t, tp, tnow)

\* the body of update_prices' loop for token t with the collected token_prices
\* tp, at time tnow, on the price map P: no sample, no change (a warning)
UpdateToken(P, t, tp, tnow) ==
    IF DOMAIN tp = {}
    THEN P
    ELSE UpdateTokenWithData(P, t, tp, tnow)

\* update_prices' loop over the tokens in the order o, from position i on
RECURSIVE UpdateAll(_, _, _, _, _)
UpdateAll(P, o, i, samples, tnow) ==
    IF i > Len(o) THEN P
    ELSE UpdateAll(UpdateToken(P, o[i], samples[o[i]], tnow), o, i + 1, samples, tnow)

\* initialize_token_price
ZeroPrices ==
    [t \in Tokens |-> [price_usd |-> Zero, price_eth |-> Zero, sources |-> <<>>, last_update |-> 0]]

NoRead == [op |-> "none", token |-> "none", age |-> 0]

NoQuote == [op |-> "none", base |-> "none", quote |-> "none", value |-> <<0, 1>>]

\* create_oracle: the prices are initialised and update_prices runs once
PriceInit ==
    /\ sources = InitialSources
    /\ now = 0
    /\ oracle_last_update = 0
    /\ \E o \in Orders, samples \in [Tokens -> SampleMaps(InitialSources)] :
          /\ prices = UpdateAll(ZeroPrices, o, 1, samples, 0)
          /\ last_samples = samples
    /\ last_read = NoRead
    /\ last_quote = NoQuote

\* update_prices: one pass over all tokens, then the oracle's last_update
UpdatePrices(o, samples) ==
    /\ prices' = UpdateAll(prices, o, 1, samples, now)
    /\ last_samples' = samples
    /\ oracle_last_update' = now
    /\ UNCHANGED <<sources, now, last_read, last_quote>>

\* add_price_source
AddPriceSource(s) ==
    /\ sources' = sources \cup {s}
    /\ UNCHANGED <<prices, oracle_last_update, now, last_samples, last_read, last_quote>>

\* remove_price_source
RemovePriceSource(s) ==
    /\ sources' = sources \ {s}
    /\ UNCHANGED <<prices, oracle_last_update, now, last_samples, last_read, last_quote>>

PriceNext ==
    \/ \E o \in Orders, samples \in [Tokens -> SampleMaps(sources)] :
          UpdatePrices(o, samples) /\ UNCHANGED notPriceVars
    \/ \E s \in InitialSources : AddPriceSource(s) /\ UNCHANGED notPriceVars
    \/ \E s \in InitialSources : RemovePriceSource(s) /\ UNCHANGED notPriceVars

\* ---- reads and the clock ----

\* Duration::from_secs(60) in get_price_usd / get_price_eth
StaleAfter == 60

\* the clock advances in steps of TickSecs seconds, MaxTicks times
TickSecs == 30
MaxTicks == 4
\* payloads handed to a submission channel
MaxSent == 2
\* seconds the clock of a wait_for_transaction call runs
MaxClock == 5
\* refreshes of the gas estimate
MaxRefreshes == 2
\* the clock of the gas optimizer: seconds per tick, ticks
GasTickSecs == 8
MaxGasTicks == 2
\* the largest max_retries a caller of retry_with_backoff passes
MaxRetries == 3
\* the numbers a long subscription hands to the producer: more than the queue holds
MaxEmit == 102
\* the blocks of a short block source
MaxPolled == 3

Tick ==
    /\ now < MaxTicks * TickSecs
    /\ now' = now + TickSecs
    /\ UNCHANGED <<prices, sources, oracle_last_update, last_samples, last_read, last_quote>>

\* last_update.elapsed() > Duration::from_secs(60)
NeedsUpdate == now - oracle_last_update > StaleAfter

\* get_price_usd (op = "usd") and get_price_eth (op = "eth") of a tracked
\* token: update_prices first if the oracle's last_update is older than the
\* window (o and samples are that pass's iteration order and source answers),
\* then the cached field is returned.
GetPrice(op, t, o, samples) ==
    LET P == IF NeedsUpdate THEN UpdateAll(prices, o, 1, samples, now) ELSE prices
    IN /\ prices' = P
       /\ last_samples' = IF NeedsUpdate THEN samples ELSE last_samples
       /\ oracle_last_update' = IF NeedsUpdate THEN now ELSE oracle_last_update
       /\ last_read' = [op |-> op, token |-> t, age |-> now - P[t].last_update]
       /\ UNCHANGED <<sources, now, last_quote>>

\* a token no record was initialised for
Untracked == "DAI"
AnyToken == Tokens \cup {Untracked}

\* a zero test that never fires
QuotePriceIsZeroMutant(q) == FALSE

\* quote_price_usd == 0.0
QuotePriceIsZero(q) == q = Zero

\* get_price_in_token: get_price_usd of the base, then of the quote (the first
\* one runs update_prices if the oracle is stale, and fails after it when the
\* token has no record), an error for a zero quote price, else the quotient.
\* A quotient with denominator 0 stands for the infinity or NaN of f64.
GetPriceInToken(b, q, o, samples) ==
    LET P == IF NeedsUpdate THEN UpdateAll(prices, o, 1, samples, now) ELSE prices
        res == IF b \notin DOMAIN P \/ q \notin DOMAIN P
               THEN [op |-> "err", value |-> Zero]
               ELSE IF QuotePriceIsZero(P[q].price_usd)
                    THEN [op |-> "err", value |-> Zero]
                    ELSE [op |-> "ok",
                          value |-> IF P[q].price_usd[1] = 0
                                    THEN <<P[b].price_usd[1], 0>>
                                    ELSE RatDiv(P[b].price_usd, P[q].price_usd)]
    IN /\ prices' = P
       /\ last_samples' = IF NeedsUpdate THEN samples ELSE last_samples
       /\ oracle_last_update' = IF NeedsUpdate THEN now ELSE oracle_last_update
       /\ last_quote' = [op |-> res.op, base |-> b, quote |-> q, value |-> res.value]
       /\ UNCHANGED <<sources, now, last_read>>

\* the answers the sources give in the clocked specification: for each token
\* all of them answer, or none does (all fail, or the source list is empty)
NoSamples == [t \in Tokens |-> <<>>]

ClockedMaps ==
    {<<>>, [s \in InitialSources |-> CHOOSE v \in SourceVals(s) : TRUE]}

\* what a read's pass can collect: nothing is asked when no pass runs
ReadSamples == IF NeedsUpdate THEN [Tokens -> ClockedMaps] ELSE {NoSamples}
ReadOrders == IF NeedsUpdate THEN Orders ELSE {CHOOSE o \in Orders : TRUE}

FreshNext ==
    \/ Tick /\ UNCHANGED notPriceVars
    \/ \E o \in Orders, samples \in [Tokens -> ClockedMaps] :
          UpdatePrices(o, samples) /\ UNCHANGED notPriceVars
    \/ \E t \in Tokens, o \in ReadOrders, samples \in ReadSamples :
          GetPrice("usd", t, o, samples) /\ UNCHANGED notPriceVars
    \/ \E t \in Tokens, o \in ReadOrders, samples \in ReadSamples :
          GetPrice("eth", t, o, samples) /\ UNCHANGED notPriceVars

\* the answers of create_oracle's pass in the specification of
\* get_price_in_token: for each token no source, one source or all sources answer
RatioMaps ==
    ClockedMaps \cup {[s \in {"UniswapV2"} |-> CHOOSE v \in SourceVals(s) : TRUE]}

\* create_oracle in the specification of get_price_in_token
RatioInit ==
    /\ sources = InitialSources
    /\ now = 0
    /\ oracle_last_update = 0
    /\ \E o \in Orders, samples \in [Tokens -> RatioMaps] :
          /\ prices = UpdateAll(ZeroPrices, o, 1, samples, 0)
          /\ last_samples = samples
    /\ last_read = NoRead
    /\ last_quote = NoQuote

\* get_price_in_token calls while the clock runs
RatioNext ==
    \/ Tick /\ UNCHANGED notPriceVars
    \/ \E b, q \in AnyToken, o \in ReadOrders, samples \in ReadSamples :
          GetPriceInToken(b, q, o, samples) /\ UNCHANGED notPriceVars

\* create_oracle in the clocked specification
FreshInit ==
    /\ sources = InitialSources
    /\ now = 0
    /\ oracle_last_update = 0
    /\ \E o \in Orders, samples \in [Tokens -> ClockedMaps] :
          /\ prices = UpdateAll(ZeroPrices, o, 1, samples, 0)
          /\ last_samples = samples
    /\ last_read = NoRead
    /\ last_quote = NoQuote

(***************************************************************************)
(* Opportunity scanner                                                     *)
(***************************************************************************)

\* config.flash_loan.tokens: symbol, whether the address parses
\* (validate_and_parse_address) and decimals. The record of a token in the
\* oracle is found by its symbol here. ETH's decimals are 3 instead of 18 to
\* keep 10^decimals in the integer range.
ConfigTokens ==
    << [symbol |-> "ETH", valid |-> TRUE, decimals |-> 3],
       [symbol |-> "USDC", valid |-> TRUE, decimals |-> 6],
       [symbol |-> "BAD", valid |-> FALSE, decimals |-> 0] >>

\* DexType and `dex_type as u8`
Venues == {"UniswapV2", "Sushiswap", "Curve"}
DexTypeNum(v) ==
    CASE v = "UniswapV2" -> 0
      [] v = "Sushiswap" -> 1
      [] v = "Curve" -> 2

\* interfaces.values(): a HashMap's iteration order is arbitrary
VenueOrders ==
    {o \in [1..Cardinality(Venues) -> Venues] :
        \A i, j \in 1..Cardinality(Venues) : o[i] = o[j] => i = j}

\* get_quote returned Err
QuoteFailed == -1

\* what a venue can answer for ETH -> USDC: an error or an output amount
VenueOutcomes(v) ==
    CASE v = "UniswapV2" -> {QuoteFailed, 1, 2000}
      [] v = "Sushiswap" -> {QuoteFailed, 2, 2000}
      [] v = "Curve" -> {QuoteFailed, 1, 2000}

ForwardQuotes == {q \in [Venues -> {QuoteFailed, 1, 2, 2000}] : \A v \in Venues : q[v] \in VenueOutcomes(v)}

\* what the venues can answer for USDC -> ETH: nothing, or two quotes with a
\* spread
BackQuotes ==
    { [v \in Venues |-> QuoteFailed],
      [v \in Venues |-> IF v = "Curve" THEN 5 ELSE IF v = "Sushiswap" THEN 7 ELSE QuoteFailed] }

\* the pairs scan() asks quotes for: both addresses parse
QuotedPairs ==
    {p \in (1..Len(ConfigTokens)) \X (1..Len(ConfigTokens)) :
        p[1] # p[2] /\ ConfigTokens[p[1]].valid /\ ConfigTokens[p[2]].valid}

\* the answers of all venues in one scan()
ScanQuotes ==
    {[p \in QuotedPairs |-> IF p[1] < p[2] THEN f ELSE b] : f \in ForwardQuotes, b \in BackQuotes}

\* ---- f64 arithmetic of scan() on fractions ----
RatMul(a, b) == Rat(a[1] * b[1], a[2] * b[2])
RatSub(a, b) ==
    LET g == GCD(a[2], b[2])
    IN Rat(a[1] * (b[2] \div g) - b[1] * (a[2] \div g), (a[2] \div g) * b[2])

RECURSIVE Pow10(_)
Pow10(d) == IF d = 0 THEN 1 ELSE 10 * Pow10(d - 1)

\* a get_quotes that pushes a quote with output 0 for a venue that failed
GetQuotesMutant(q, order) ==
    [k \in 1..Len(order) |->
        [dex_type |-> order[k],
         output_amount |-> IF q[order[k]] = QuoteFailed THEN 0 ELSE q[order[k]]]]

\* a get_quotes that gives up at the first venue that fails
GetQuotesFailFastMutant(q, order) ==
    IF \E v \in Venues : q[v] = QuoteFailed THEN <<>>
    ELSE [k \in 1..Len(order) |-> [dex_type |-> order[k], output_amount |-> q[order[k]]]]

\* DexInterfaces::get_quotes: the quotes of the venues that answered, in the
\* iteration order of the interfaces
GetQuotes(q, order) ==
    SelectSeq([k \in 1..Len(order) |-> [dex_type |-> order[k], output_amount |-> q[order[k]]]],
              LAMBDA x : x.output_amount # QuoteFailed)

\* Option<TradeQuote>::None
NoneQuote == [dex_type |-> "none", output_amount |-> 0]

\* best_buy_quote after the loop over quotes[k..]: the first quote with the
\* largest output_amount
RECURSIVE BestBuyQuote(_, _, _)
BestBuyQuote(quotes, k, best) ==
    IF k > Len(quotes) THEN best
    ELSE BestBuyQuote(quotes, k + 1,
            IF best = NoneQuote \/ quotes[k].output_amount > best.output_amount
            THEN quotes[k] ELSE best)

\* a best_sell_quote that is the first quote of the list
BestSellQuoteMutant(quotes, k, best) == IF quotes = <<>> THEN best ELSE quotes[1]

\* best_sell_quote after the loop over quotes[k..]: the first quote with the
\* smallest output_amount
RECURSIVE BestSellQuote(_, _, _)
BestSellQuote(quotes, k, best) ==
    IF k > Len(quotes) THEN best
    ELSE BestSellQuote(quotes, k + 1,
            IF best = NoneQuote \/ quotes[k].output_amount < best.output_amount
            THEN quotes[k] ELSE best)

\* the negation of `quotes.len() < 2`
EnoughQuotes(quotes) == Len(quotes) >= 2

\* estimated_gas_cost = 0.01
ScanGasCost == <<1, 100>>

\* format!("{}_{}_{}_{}", symbol_a, symbol_b, buy dex_type as u8, sell dex_type as u8)
OpportunityId(sym_a, sym_b, buy, sell) ==
    sym_a \o "_" \o sym_b \o "_" \o ToString(DexTypeNum(buy)) \o "_" \o ToString(DexTypeNum(sell))

\* get_price_usd inside scan(), on the oracle state st = [prices, lu, ls]:
\* update_prices first if the oracle is stale
OracleRead(st, o, samples) ==
    IF now - st.lu > StaleAfter
    THEN [st EXCEPT !.prices = UpdateAll(st.prices, o, 1, samples, now), !.lu = now, !.ls = samples]
    ELSE st

\* a net profit filter that lets everything through
NetProfitOkMutant(net) == TRUE

\* net_profit > 0.0
NetProfitOk(net) == RatPos(net)

\* the body of scan()'s loops for tokens[i], tokens[j] on the state st =
\* [prices, lu, ls, opps], with the answers q of the venues for this pair
ScanPair(st, i, j, q, order, o, samples) ==
    LET a == ConfigTokens[i]
        b == ConfigTokens[j]
        quotes == GetQuotes(q, order)
        buy == BestBuyQuote(quotes, 1, NoneQuote)
        sell == BestSellQuote(quotes, 1, NoneQuote)
        profit_in_token_b == buy.output_amount - sell.output_amount
        st1 == OracleRead(st, o, samples)
        profit_usd == RatMul(Rat(profit_in_token_b, Pow10(b.decimals)), st1.prices[b.symbol].price_usd)
        loan_amount_usd == RatMul(Rat(Pow10(a.decimals), Pow10(a.decimals)), st1.prices[a.symbol].price_usd)
        net_profit == RatSub(profit_usd, ScanGasCost)
        opportunity == [id |-> OpportunityId(a.symbol, b.symbol, buy.dex_type, sell.dex_type),
                        timestamp |-> now,
                        source_dex |-> buy.dex_type,
                        target_dex |-> sell.dex_type,
                        token_path |-> <<a.symbol, b.symbol, a.symbol>>,
                        estimated_profit |-> profit_usd,
                        required_loan_amount |-> loan_amount_usd,
                        estimated_gas_cost |-> ScanGasCost,
                        net_profit |-> net_profit,
                        confidence_score |-> 80]
    IN IF ~EnoughQuotes(quotes) THEN st
       ELSE IF ~(buy.output_amount > sell.output_amount) THEN st
       ELSE IF b.symbol \notin DOMAIN st1.prices \/ a.symbol \notin DOMAIN st1.prices THEN st1
       ELSE IF NetProfitOk(net_profit)
            THEN [st1 EXCEPT !.opps = Append(@, opportunity)]
            ELSE st1

\* scan()'s loops from the pair (i, j) on: i and j run over the indexes of
\* the configured tokens, pairs with i = j or an address that does not parse
\* are skipped
RECURSIVE ScanFrom(_, _, _, _, _, _, _)
ScanFrom(st, i, j, qs, order, o, samples) ==
    IF i > Len(ConfigTokens) THEN st
    ELSE IF j > Len(ConfigTokens) THEN ScanFrom(st, i + 1, 1, qs, order, o, samples)
    ELSE IF <<i, j>> \notin QuotedPairs THEN ScanFrom(st, i, j + 1, qs, order, o, samples)
    ELSE ScanFrom(ScanPair(st, i, j, qs[<<i, j>>], order, o, samples), i, j + 1, qs, order, o, samples)

Loops == 1..MaxLoops

NoScanCall == [op |-> "none", found |-> FALSE, bit |-> 0]

\* create_scanner and create_interfaces, before the first scan()
ScanInit ==
    /\ dex_order \in VenueOrders
    /\ opportunities = <<>>
    /\ last_quotes = [p \in QuotedPairs |-> [v \in Venues |-> QuoteFailed]]
    /\ scan_prices = ZeroPrices
    /\ is_scanning = FALSE
    /\ nloops = 0
    /\ scan_loop = [l \in Loops |-> "none"]
    /\ last_scan_call = NoScanCall

\* scan(): qs are the venues' answers, o and samples the iteration order and
\* the source answers of the update_prices pass a price read runs when the
\* oracle is stale
Scan(qs, o, samples) ==
    \E st \in {ScanFrom([prices |-> prices, lu |-> oracle_last_update, ls |-> last_samples, opps |-> <<>>],
                       1, 1, qs, dex_order, o, samples)} :
       /\ prices' = st.prices
       /\ oracle_last_update' = st.lu
       /\ last_samples' = st.ls
       /\ opportunities' = st.opps
       /\ last_quotes' = qs
       /\ scan_prices' = st.prices
       /\ UNCHANGED <<dex_order, sources, now, last_read, last_quote>>

\* a scan() called directly (main.rs, process_block)
ScanCall(qs, o, samples) ==
    /\ Scan(qs, o, samples)
    /\ UNCHANGED <<is_scanning, nloops, scan_loop, last_scan_call>>

\* a guard of start_continuous_scanning that never finds the flag set
StartScanGuardMutant == FALSE

\* `if *is_scanning` in start_continuous_scanning
StartScanGuard == is_scanning

\* start_continuous_scanning: under the write guard of is_scanning, return
\* if the flag is set, else set it and spawn the background loop
StartContinuousScanning ==
    /\ last_scan_call' = [op |-> "start", found |-> is_scanning, bit |-> 1 - last_scan_call.bit]
    /\ IF StartScanGuard
       THEN UNCHANGED <<is_scanning, nloops, scan_loop>>
       ELSE /\ nloops < MaxLoops
            /\ is_scanning' = TRUE
            /\ nloops' = nloops + 1
            /\ scan_loop' = [scan_loop EXCEPT ![nloops + 1] = "checking"]
    /\ UNCHANGED <<dex_order, opportunities, last_quotes, scan_prices>>
    /\ UNCHANGED priceVars

\* stop_continuous_scanning: under the write guard, return if the flag is
\* clear, else clear it
StopContinuousScanning ==
    /\ last_scan_call' = [op |-> "stop", found |-> is_scanning, bit |-> 1 - last_scan_call.bit]
    /\ is_scanning' = FALSE
    /\ UNCHANGED <<dex_order, opportunities, last_quotes, scan_prices, nloops, scan_loop>>
    /\ UNCHANGED priceVars

\* the background loop's `while *scanner.is_scanning.read().await`
LoopCheck(l) ==
    /\ scan_loop[l] = "checking"
    /\ scan_loop' = [scan_loop EXCEPT ![l] = IF is_scanning THEN "scanning" ELSE "ended"]
    /\ UNCHANGED <<dex_order, opportunities, last_quotes, scan_prices, is_scanning, nloops, last_scan_call>>
    /\ UNCHANGED priceVars

\* the background loop's scanner.scan().await, up to the sleep
LoopScan(l, qs, o, samples) ==
    /\ scan_loop[l] = "scanning"
    /\ Scan(qs, o, samples)
    /\ scan_loop' = [scan_loop EXCEPT ![l] = "sleeping"]
    /\ UNCHANGED <<is_scanning, nloops, last_scan_call>>

\* the background loop's sleep is over
LoopWake(l) ==
    /\ scan_loop[l] = "sleeping"
    /\ scan_loop' = [scan_loop EXCEPT ![l] = "checking"]
    /\ UNCHANGED <<dex_order, opportunities, last_quotes, scan_prices, is_scanning, nloops, last_scan_call>>
    /\ UNCHANGED priceVars

\* the clock passes the freshness window of the oracle
ScanTick ==
    /\ now = 0
    /\ now' = now + StaleAfter + TickSecs
    /\ UNCHANGED <<prices, sources, oracle_last_update, last_samples, last_read, last_quote>>

\* what the pass of a stale price read inside scan() can collect: all sources
\* answer for every token, or none does
ScanSamples ==
    IF NeedsUpdate THEN {NoSamples, [t \in Tokens |-> [s \in InitialSources |-> CHOOSE v \in SourceVals(s) : TRUE]]}
    ELSE {NoSamples}

ScanNext ==
    \/ ScanTick /\ UNCHANGED notPriceVars
    \/ \E qs \in ScanQuotes, samples \in ScanSamples :
          ScanCall(qs, <<"ETH", "USDC">>, samples) /\ UNCHANGED notScanVars

\* what the venues answer to a background loop's scan: nothing, or a spread
\* for each pair
LoopQuotes ==
    {[p \in QuotedPairs |-> [v \in Venues |-> QuoteFailed]],
     [p \in QuotedPairs |-> [v \in Venues |-> IF v = "Curve" THEN 5 ELSE IF v = "Sushiswap" THEN 7 ELSE QuoteFailed]]}

ScanLoopNext ==
    \/ StartContinuousScanning /\ UNCHANGED notScanVars
    \/ StopContinuousScanning /\ UNCHANGED notScanVars
    \/ \E l \in Loops : LoopCheck(l) /\ UNCHANGED notScanVars
    \/ \E l \in Loops, qs \in LoopQuotes, samples \in ScanSamples :
          LoopScan(l, qs, <<"ETH", "USDC">>, samples) /\ UNCHANGED notScanVars
    \/ \E l \in Loops : LoopWake(l) /\ UNCHANGED notScanVars

\* the venues answered for USDC -> ETH in the answers qs
Answered2(qs) == \E v \in Venues : qs[<<2, 1>>][v] # QuoteFailed

\* what the sources answer to a pass in the specification of failures, for
\* ETH all sources answer, one source fails, or none answers; for USDC all
\* answer or none does
PartialMaps ==
    {[s \in A |-> CHOOSE v \in SourceVals(s) : TRUE] :
        A \in {InitialSources, {}} \cup {InitialSources \ {s} : s \in InitialSources}}

PartialSamples == {m \in [Tokens -> PartialMaps] : m["USDC"] \in ClockedMaps}

\* what the venues answer to a scan in the specification of failures: every
\* venue answers or fails on its own for ETH -> USDC, and for USDC -> ETH the
\* venues answer only when all have answered for ETH -> USDC
PartialQuotes ==
    {[p \in QuotedPairs |-> IF p[1] < p[2] THEN f ELSE b] :
        f \in {q \in ForwardQuotes : \A v \in Venues : q[v] \in {QuoteFailed, IF v = "Sushiswap" THEN 2000 ELSE 1}},
        b \in BackQuotes}
    \ {qs \in ScanQuotes : Answered2(qs) /\ \E v \in Venues : qs[<<1, 2>>][v] = QuoteFailed}

\* scans and price updates in which single venues and single sources fail
IsolationNext ==
    \/ ScanTick /\ UNCHANGED notPriceVars
    \/ \E qs \in PartialQuotes, samples \in IF NeedsUpdate THEN PartialSamples ELSE {NoSamples} :
          ScanCall(qs, <<"ETH", "USDC">>, samples) /\ UNCHANGED notScanVars
    \/ \E samples \in PartialSamples :
          UpdatePrices(<<"ETH", "USDC">>, samples) /\ UNCHANGED notPriceVars

\* the oracle when the scanner is created: create_oracle's pass got answers
\* from all sources for ETH, and from all or from none for USDC
ScanPriceInit ==
    /\ sources = InitialSources
    /\ now = 0
    /\ oracle_last_update = 0
    /\ \E samples \in {m \in [Tokens -> ClockedMaps] : m[EthAddress] # <<>>} :
          /\ prices = UpdateAll(ZeroPrices, <<"ETH", "USDC">>, 1, samples, 0)
          /\ last_samples = samples
    /\ last_read = NoRead
    /\ last_quote = NoQuote

\* the scanner while another component is explored
ScanIdle ==
    /\ dex_order = <<"UniswapV2", "Sushiswap", "Curve">>
    /\ opportunities = <<>>
    /\ last_quotes = [p \in QuotedPairs |-> [v \in Venues |-> QuoteFailed]]
    /\ scan_prices = ZeroPrices
    /\ is_scanning = FALSE
    /\ nloops = 0
    /\ scan_loop = [l \in Loops |-> "none"]
    /\ last_scan_call = NoScanCall

(***************************************************************************)
(* Strategy engine                                                         *)
(***************************************************************************)

\* f64 comparison on fractions (denominators are positive)
RatGt(a, b) == a[1] * b[2] > b[1] * a[2]

\* config.arbitrage.min_profit_threshold, in USD
MinProfitThreshold == 50

\* an ArbitrageOpportunity as evaluate_opportunities reads it
Opp(id, path, profit, net) ==
    [id |-> id, token_path |-> path, estimated_profit |-> profit,
     estimated_gas_cost |-> ScanGasCost, net_profit |-> net]

\* the opportunities a caller can put in the list: token paths of 2 to 4
\* tokens, estimated profits around the threshold, and a supplied net profit
\* that is the scanner's (profit - 0.01) or another number
OppPool ==
    { Opp("direct", <<"ETH", "USDC">>, <<60, 1>>, <<5999, 100>>),
      Opp("cycle", <<"ETH", "USDC", "ETH">>, <<60, 1>>, <<5999, 100>>),
      Opp("cycle4", <<"ETH", "USDC", "DAI", "ETH">>, <<60, 1>>, <<5999, 100>>),
      Opp("edge", <<"ETH", "USDC", "ETH">>, <<50, 1>>, <<51, 1>>),
      Opp("low", <<"ETH", "USDC", "ETH">>, <<70, 1>>, <<40, 1>>) }

\* the lists a caller can give
OppLists == UNION {[1..n -> OppPool] : n \in 0..MaxList}

\* estimated_gas by token_path.len(): 3 => 0.005, 4 => 0.008, _ => 0.012
EstimatedGas(len) ==
    CASE len = 3 -> <<1, 200>>
      [] len = 4 -> <<1, 125>>
      [] OTHER -> <<3, 250>>

\* a threshold test that lets everything through
AboveThresholdMutant(net) == TRUE

\* net_profit > self.config.arbitrage.min_profit_threshold
AboveThreshold(net) == RatGt(net, <<min_profit_threshold, 1>>)

\* the loop body: estimated_gas_cost and net_profit are overwritten
Reestimate(op) ==
    [op EXCEPT !.estimated_gas_cost = EstimatedGas(Len(op.token_path)),
               !.net_profit = RatSub(op.estimated_profit, EstimatedGas(Len(op.token_path)))]

RECURSIVE MapReestimate(_)
MapReestimate(list) ==
    IF list = <<>> THEN <<>> ELSE <<Reestimate(Head(list))>> \o MapReestimate(Tail(list))

\* a comparison under which an opportunity also goes before one with the
\* same net profit
PrecedesMutant(op, other) == ~RatGt(other.net_profit, op.net_profit)

\* b.net_profit.partial_cmp(&a.net_profit) orders op before other: its net
\* profit is larger
Precedes(op, other) == RatGt(op.net_profit, other.net_profit)

\* sort_by(|a, b| b.net_profit.partial_cmp(&a.net_profit)): a stable sort,
\* descending by net_profit (insertion of op behind every element that is
\* not smaller)
RECURSIVE InsertDesc(_, _)
InsertDesc(sorted, op) ==
    IF sorted = <<>> THEN <<op>>
    ELSE IF Precedes(op, Head(sorted))
         THEN <<op>> \o sorted
         ELSE <<Head(sorted)>> \o InsertDesc(Tail(sorted), op)

RECURSIVE SortDesc(_, _)
SortDesc(list, k) ==
    IF k = 0 THEN <<>> ELSE InsertDesc(SortDesc(list, k - 1), list[k])

\* a selection that takes the last element of the sorted list
BestOpportunityMutant(evaluated) ==
    LET sorted == SortDesc(evaluated, Len(evaluated)) IN sorted[Len(sorted)]

\* evaluated_opportunities.sort_by(..); evaluated_opportunities.remove(0)
BestOpportunity(evaluated) == Head(SortDesc(evaluated, Len(evaluated)))

\* evaluate_opportunities: [gas |-> the recomputed estimates, result |-> the Option returned]
EvaluateOpportunities(list) ==
    LET profitable == SelectSeq(list, LAMBDA op : AboveThreshold(op.net_profit))
        recomputed == MapReestimate(profitable)
        evaluated == SelectSeq(recomputed, LAMBDA op : AboveThreshold(op.net_profit))
        gas == [k \in 1..Len(recomputed) |->
                    <<Len(recomputed[k].token_path), recomputed[k].estimated_gas_cost>>]
    IN IF list = <<>> THEN [gas |-> <<>>, result |-> <<>>]
       ELSE IF profitable = <<>> THEN [gas |-> <<>>, result |-> <<>>]
       ELSE IF evaluated = <<>> THEN [gas |-> gas, result |-> <<>>]
       ELSE [gas |-> gas, result |-> <<BestOpportunity(evaluated)>>]

NoCalc ==
    [op |-> "none", path |-> <<>>, amount |-> 0, ok |-> FALSE, value |-> <<0, 1>>,
     input_amount |-> 0, current_amount |-> 0, dex_used |-> <<>>]

NoPath ==
    [op |-> "none", from |-> "none", to |-> "none", ok |-> FALSE, path |-> <<>>,
     candidates |-> <<>>, profits |-> <<>>]

\* create_engine: no call yet
StratInit ==
    /\ eval_input = <<>>
    /\ eval_gas = <<>>
    /\ eval_result = <<>>
    /\ calc_call = NoCalc
    /\ path_call = NoPath
    /\ min_profit_threshold = MinProfitThreshold

\* a call of evaluate_opportunities
Evaluate(list) ==
    /\ eval_input' = list
    /\ eval_gas' = EvaluateOpportunities(list).gas
    /\ eval_result' = EvaluateOpportunities(list).result
    /\ UNCHANGED <<calc_call, path_call, min_profit_threshold>>

StratNext ==
    \/ \E list \in OppLists : Evaluate(list) /\ UNCHANGED notStratVars

\* lists in which two different opportunities have the same estimated profit
\* and the same path length, hence the same recomputed net profit
TieLists ==
    UNION {[1..n -> (OppPool \ {Opp("direct", <<"ETH", "USDC">>, <<60, 1>>, <<5999, 100>>)})
                    \cup {Opp("twin", <<"ETH", "DAI", "ETH">>, <<60, 1>>, <<5999, 100>>)}]
           : n \in 0..MaxList}

TieNext ==
    \/ \E list \in TieLists : Evaluate(list) /\ UNCHANGED notStratVars

\* config.flash_loan.tokens as the strategy engine is explored with it: four
\* tokens with an address that parses, so that paths through one and through
\* two intermediate tokens exist, and one that does not. The decimals are
\* small to keep 10^decimals and the amounts in the integer range. The oracle
\* tracks ETH and USDC only.
StrategyTokens ==
    << [symbol |-> "ETH", valid |-> TRUE, decimals |-> 3],
       [symbol |-> "USDC", valid |-> TRUE, decimals |-> 6],
       [symbol |-> "DAI", valid |-> TRUE, decimals |-> 2],
       [symbol |-> "WBTC", valid |-> TRUE, decimals |-> 1],
       [symbol |-> "BAD", valid |-> FALSE, decimals |-> 0] >>

\* get_token_decimals from the k-th configured token on: the decimals of the
\* first token whose address parses and equals the given one, 18 otherwise
RECURSIVE GetTokenDecimals(_, _)
GetTokenDecimals(token, k) ==
    IF k > Len(StrategyTokens) THEN 18
    ELSE IF StrategyTokens[k].valid /\ StrategyTokens[k].symbol = token
         THEN StrategyTokens[k].decimals
         ELSE GetTokenDecimals(token, k + 1)

\* estimate_gas_cost's sum over dex_types[k..], in thousandths of a dollar
RECURSIVE DexGas(_, _)
DexGas(dex_types, k) ==
    IF k > Len(dex_types) THEN 0
    ELSE (IF dex_types[k] = "Curve" THEN 2 ELSE 1) + DexGas(dex_types, k + 1)

\* estimate_gas_cost: (0.005 + the path length's share + the venues' shares) * 1.2
EstimateGasCost(path_length, dex_types) ==
    Rat((5 + (CASE path_length = 2 -> 1 [] path_length = 3 -> 2 [] OTHER -> 4)
           + DexGas(dex_types, 1)) * 12, 10000)

\* quotes.into_iter().max_by(output_amount) from quotes[k] on: the last of
\* the quotes with the largest output
RECURSIVE MaxByOutput(_, _, _)
MaxByOutput(quotes, k, best) ==
    IF k > Len(quotes) THEN best
    ELSE MaxByOutput(quotes, k + 1,
            IF best = NoneQuote \/ quotes[k].output_amount >= best.output_amount
            THEN quotes[k] ELSE best)

\* DexInterfaces::find_best_quote on the venues' answers q: None without quotes
FindBestQuote(q, order) ==
    LET quotes == GetQuotes(q, order)
    IN IF quotes = <<>> THEN NoneQuote ELSE MaxByOutput(quotes, 1, NoneQuote)

\* the hop loop of calculate_expected_profit from hop i on; hq[i] is what the
\* venues answer for path[i] -> path[i + 1]
RECURSIVE SimulateHops(_, _, _, _, _, _)
SimulateHops(path, hq, order, i, current_amount, dex_used) ==
    IF i > Len(path) - 1
    THEN [ok |-> TRUE, current_amount |-> current_amount, dex_used |-> dex_used]
    ELSE LET best_quote == FindBestQuote(hq[i], order)
         IN IF best_quote = NoneQuote
            THEN [ok |-> FALSE, current_amount |-> current_amount, dex_used |-> dex_used]
            ELSE SimulateHops(path, hq, order, i + 1, best_quote.output_amount,
                              Append(dex_used, best_quote.dex_type))

\* x * 10^decimals for a fraction x
Scaled(x, decimals) ==
    LET g == GCD(x[2], Pow10(decimals))
    IN <<x[1] * (Pow10(decimals) \div g), x[2] \div g>>

\* ethers::utils::parse_units(x.to_string(), decimals): the number of base
\* units. With more fractional digits than decimals the library either cuts
\* the digits off or returns an error, depending on its version (truncates).
ParseUnits(x, decimals, truncates) ==
    LET s == Scaled(x, decimals)
    IN IF s[2] = 1 THEN [ok |-> TRUE, units |-> s[1]]
       ELSE IF truncates THEN [ok |-> TRUE, units |-> s[1] \div s[2]]
       ELSE [ok |-> FALSE, units |-> 0]

\* format_units(units, decimals).parse::<f64>()
FormatUnits(units, decimals) == Rat(units, Pow10(decimals))

\* a final test that lets every net profit through
NetProfitPositiveMutant(net) == TRUE

\* net_profit > 0.0 at the end of calculate_expected_profit
NetProfitPositive(net) == RatPos(net)

\* what calculate_expected_profit returns and leaves behind
CalcOutcome(st, ok, value, input_amount, sim) ==
    [st |-> st, ok |-> ok, value |-> value, input_amount |-> input_amount,
     current_amount |-> sim.current_amount, dex_used |-> sim.dex_used]

\* calculate_expected_profit after the hop loop: sim is the loop's outcome,
\* st the oracle before the first price read and st1 after it
ProfitAfterHops(st, st1, path, amount, sim, truncates) ==
    LET from_token == path[1]
        final_token == path[Len(path)]
        from_token_decimals == GetTokenDecimals(from_token, 1)
        input_amount == amount * Pow10(from_token_decimals)
        current_amount == sim.current_amount
        Tracked(t) == t \in DOMAIN st1.prices
        from_token_price == st1.prices[from_token].price_usd
        final_token_price == st1.prices[final_token].price_usd
        final_amount_f64 == FormatUnits(current_amount, GetTokenDecimals(final_token, 1))
        final_value_usd == RatMul(final_amount_f64, final_token_price)
        initial_value_usd == RatMul(<<amount, 1>>, from_token_price)
        profit_in_from_token == RatDiv(RatSub(final_value_usd, initial_value_usd), from_token_price)
        converted == ParseUnits(profit_in_from_token, from_token_decimals, truncates)
        Err(s) == CalcOutcome(s, FALSE, Zero, input_amount, sim)
        Ok(s, v) == CalcOutcome(s, TRUE, v, input_amount, sim)
        Finish(profit_in_token) ==
            LET profit_usd == RatMul(FormatUnits(profit_in_token, from_token_decimals), from_token_price)
                gas_cost == EstimateGasCost(Len(path), sim.dex_used)
                net_profit == RatSub(profit_usd, gas_cost)
            IN IF ~Tracked(from_token) THEN Err(st1)
               ELSE IF NetProfitPositive(net_profit) THEN Ok(st1, net_profit)
               ELSE Ok(st1, Zero)
    IN IF ~sim.ok THEN Err(st)
       ELSE IF from_token = final_token
            THEN IF current_amount > input_amount
                 THEN Finish(current_amount - input_amount)
                 ELSE Ok(st, Zero)
            ELSE IF ~Tracked(final_token) \/ ~Tracked(from_token) THEN Err(st1)
            ELSE IF ~RatPos(from_token_price) THEN Err(st1)
            ELSE IF RatGt(final_value_usd, initial_value_usd)
                 THEN IF converted.ok THEN Finish(converted.units) ELSE Err(st1)
                 ELSE Ok(st1, Zero)

\* calculate_expected_profit(path, amount) on the oracle state st = [prices,
\* lu, ls], with the venues' answers hq for the hops. ok is Ok(value) against
\* Err; the first price read runs the oracle's pass when the oracle is stale.
CalculateExpectedProfit(st, path, amount, hq, order, truncates, o, samples) ==
    IF Len(path) < 2
    THEN CalcOutcome(st, FALSE, Zero, 0, [current_amount |-> 0, dex_used |-> <<>>])
    ELSE CHOOSE outcome \in
            {ProfitAfterHops(st, st1, path, amount, sim, truncates) :
                sim \in {SimulateHops(path, hq, order, 1,
                                      amount * Pow10(GetTokenDecimals(path[1], 1)), <<>>)},
                st1 \in {OracleRead(st, o, samples)}} : TRUE

\* the paths and amounts a caller asks about: too short, direct, through an
\* intermediate token, circular, and ending at a token the oracle does not track
CalcPaths ==
    { <<"ETH">>, <<"ETH", "USDC">>, <<"USDC", "ETH">>, <<"ETH", "DAI">>,
      <<"USDC", "ETH", "USDC">>, <<"ETH", "DAI", "USDC">> }
CalcAmounts == {1, 2}

\* one whole token_out in base units, the output that returns the input's
\* worth of a one-token trade at equal prices
OneToken(token_out) == Pow10(GetTokenDecimals(token_out, 1))

\* what the venues can answer for a hop into token_out: nothing, one quote at
\* par, two equal quotes one base unit above par, two equal quotes 0.2% above
\* par with Curve among them, one quote below par
HopAnswers(token_out) ==
    LET par == OneToken(token_out)
        Only(S, x) == [v \in Venues |-> IF v \in S THEN x ELSE QuoteFailed]
    IN { Only({}, 0),
         Only({"UniswapV2"}, par),
         Only({"UniswapV2", "Sushiswap"}, par + 1),
         Only({"UniswapV2", "Curve"}, par + par \div 500),
         Only({"Sushiswap"}, par - 1) }

\* the venues' answers for the hops k.. of a path
RECURSIVE HopSeqs(_, _)
HopSeqs(path, k) ==
    IF k > Len(path) - 1 THEN {<<>>}
    ELSE {<<a>> \o rest : a \in HopAnswers(path[k + 1]), rest \in HopSeqs(path, k + 1)}

\* what parse_units can do with excess digits in a call for the path: the
\* conversion of a fraction is only reached on a path that is not circular
ParseBehaviours(path) == IF path[1] = path[Len(path)] THEN {TRUE} ELSE BOOLEAN

\* the oracle as calculate_expected_profit reads it
OracleState == [prices |-> prices, lu |-> oracle_last_update, ls |-> last_samples]

\* a call of calculate_expected_profit
CalculateProfitCall(path, amount, hq, truncates, o, samples) ==
    \E r \in {CalculateExpectedProfit(OracleState, path, amount, hq, dex_order, truncates, o, samples)} :
       /\ prices' = r.st.prices
       /\ oracle_last_update' = r.st.lu
       /\ last_samples' = r.st.ls
       /\ calc_call' = [op |-> "calc", path |-> path, amount |-> amount, ok |-> r.ok,
                        value |-> r.value, input_amount |-> r.input_amount,
                        current_amount |-> r.current_amount, dex_used |-> r.dex_used]
       /\ UNCHANGED <<sources, now, last_read, last_quote>>
       /\ UNCHANGED <<eval_input, eval_gas, eval_result, path_call, min_profit_threshold>>

\* the engine's collaborators besides the oracle
notProfitVars == <<feedVars, scanVars, txVars>>

ProfitNext ==
    \/ ScanTick /\ UNCHANGED notPriceVars
    \/ \E path \in CalcPaths, amount \in CalcAmounts, samples \in ScanSamples :
          \E hq \in HopSeqs(path, 1), truncates \in ParseBehaviours(path) :
             CalculateProfitCall(path, amount, hq, truncates, <<"ETH", "USDC">>, samples)
             /\ UNCHANGED notProfitVars

\* the intermediate tokens of find_optimal_path from the k-th configured
\* token on: the tokens whose address parses and is neither end of the path
RECURSIVE IntermediateTokens(_, _, _)
IntermediateTokens(from_token, to_token, k) ==
    IF k > Len(StrategyTokens) THEN <<>>
    ELSE (IF StrategyTokens[k].valid /\ StrategyTokens[k].symbol \notin {from_token, to_token}
          THEN <<StrategyTokens[k].symbol>> ELSE <<>>)
         \o IntermediateTokens(from_token, to_token, k + 1)

\* the loops over i and j in i + 1.. that push [from, im[i], im[j], to]
RECURSIVE TwoHopPaths(_, _, _, _, _)
TwoHopPaths(from_token, to_token, im, i, j) ==
    IF i > Len(im) THEN <<>>
    ELSE IF j > Len(im) THEN TwoHopPaths(from_token, to_token, im, i + 1, i + 2)
    ELSE <<<<from_token, im[i], im[j], to_token>>>> \o TwoHopPaths(from_token, to_token, im, i, j + 1)

\* paths: the direct path, one path per intermediate token, one per pair
CandidatePaths(from_token, to_token) ==
    LET im == IntermediateTokens(from_token, to_token, 1)
    IN <<<<from_token, to_token>>>>
       \o [k \in 1..Len(im) |-> <<from_token, im[k], to_token>>]
       \o TwoHopPaths(from_token, to_token, im, 1, 2)

\* a comparison that takes every path whose profit was computed
BetterProfitMutant(profit, best_profit) == TRUE

\* profit > best_profit
BetterProfit(profit, best_profit) == RatGt(profit, best_profit)

\* one round of the loop of find_optimal_path on acc = [st, best_path,
\* best_profit, profits], r being what calculate_expected_profit returned for
\* the path: best_path is <<>> for None and <<path>> for Some; profits
\* collects what was returned for each path
LoopRound(acc, path, r) ==
    LET take == r.ok /\ BetterProfit(r.value, acc.best_profit)
    IN [st |-> r.st,
        best_path |-> IF take THEN <<path>> ELSE acc.best_path,
        best_profit |-> IF take THEN r.value ELSE acc.best_profit,
        profits |-> Append(acc.profits, [ok |-> r.ok, value |-> r.value])]

\* the loop of find_optimal_path over paths[k..]
RECURSIVE BestPathFrom(_, _, _, _, _, _, _, _)
BestPathFrom(acc, paths, k, hqs, order, truncates, o, samples) ==
    IF k > Len(paths) THEN acc
    ELSE CHOOSE found \in
            {BestPathFrom(a, paths, k + 1, hqs, order, truncates, o, samples) :
                a \in {LoopRound(acc, paths[k], r) :
                         r \in {CalculateExpectedProfit(acc.st, paths[k], 1, hqs[k], order,
                                                          truncates, o, samples)}}} : TRUE

\* find_optimal_path(from_token, to_token): an error without venues,
\* otherwise the loop over the candidate paths; the result is Ok(path) when
\* best_path is Some(path)
FindOptimalPath(st, from_token, to_token, hqs, order, truncates, o, samples) ==
    LET start == [st |-> st, best_path |-> <<>>, best_profit |-> Zero, profits |-> <<>>]
        paths == CandidatePaths(from_token, to_token)
    IN IF Len(order) = 0
       THEN [found |-> start, candidates |-> <<>>]
       ELSE [found |-> BestPathFrom(start, paths, 1, hqs, order, truncates, o, samples),
             candidates |-> paths]

\* the pairs a caller asks a path for
PathEnds == {<<"ETH", "USDC">>}

\* what the venues can answer for the hops of one candidate path: par from
\* UniswapV2 on every hop but the last, and on the last hop nothing, 0.2%
\* above par, or a second price above par: one base unit above on the direct
\* path, 0.4% above on a longer one
PathAnswers(path) ==
    LET par(t) == OneToken(t)
        Only(S, x) == [v \in Venues |-> IF v \in S THEN x ELSE QuoteFailed]
        last == path[Len(path)]
    IN {[k \in 1..(Len(path) - 1) |-> IF k < Len(path) - 1 THEN Only({"UniswapV2"}, par(path[k + 1])) ELSE f] :
           f \in { Only({}, 0),
                   Only({"UniswapV2", "Curve"}, par(last) + par(last) \div 500),
                   IF Len(path) = 2
                   THEN Only({"UniswapV2", "Sushiswap"}, par(last) + 1)
                   ELSE Only({"Sushiswap"}, par(last) + par(last) \div 250) }}

\* the venues' answers for the candidate paths k.. of one find_optimal_path
RECURSIVE PathQuotes(_, _)
PathQuotes(paths, k) ==
    IF k > Len(paths) THEN {<<>>}
    ELSE {<<a>> \o rest : a \in PathAnswers(paths[k]), rest \in PathQuotes(paths, k + 1)}

\* a call of find_optimal_path
FindOptimalPathCall(from_token, to_token, hqs, truncates, o, samples) ==
    \E r \in {FindOptimalPath(OracleState, from_token, to_token, hqs, dex_order, truncates, o, samples)} :
       /\ prices' = r.found.st.prices
       /\ oracle_last_update' = r.found.st.lu
       /\ last_samples' = r.found.st.ls
       /\ path_call' = [op |-> "find", from |-> from_token, to |-> to_token,
                        ok |-> r.found.best_path # <<>>,
                        path |-> IF r.found.best_path # <<>> THEN r.found.best_path[1] ELSE <<>>,
                        candidates |-> r.candidates, profits |-> r.found.profits]
       /\ UNCHANGED <<sources, now, last_read, last_quote>>
       /\ UNCHANGED <<eval_input, eval_gas, eval_result, calc_call, min_profit_threshold>>

\* the venues the strategy engine is explored with: none, and all three in an
\* order with UniswapV2 before Curve and in one with Curve before UniswapV2
PathOrders ==
    {<<>>, <<"UniswapV2", "Sushiswap", "Curve">>, <<"Curve", "Sushiswap", "UniswapV2">>}

\* create_interfaces with all venues enabled, or with none
PathInit ==
    /\ dex_order \in PathOrders
    /\ opportunities = <<>>
    /\ last_quotes = [p \in QuotedPairs |-> [v \in Venues |-> QuoteFailed]]
    /\ scan_prices = ZeroPrices
    /\ is_scanning = FALSE
    /\ nloops = 0
    /\ scan_loop = [l \in Loops |-> "none"]
    /\ last_scan_call = NoScanCall

PathNext ==
    \/ \E ends \in PathEnds, truncates \in BOOLEAN :
          \E hqs \in PathQuotes(CandidatePaths(ends[1], ends[2]), 1) :
             FindOptimalPathCall(ends[1], ends[2], hqs, truncates, <<"ETH", "USDC">>, NoSamples)
             /\ UNCHANGED notProfitVars

(***************************************************************************)
(* Transaction executor                                                    *)
(***************************************************************************)

\* the Address of config.ethereum.private_key's wallet
WalletAddress == "wallet"

\* Option<U256>::None of Transaction.gas_price, and an Err of the gas optimizer
NoGasPrice == -1
GasFailed == -2

\* Option<u64>::None of a block number
NoBlock == 0

\* the gas limit of the replacement transaction
CancelGas == 21000

\* the factor of the replacement's gas price, as a fraction
CancelFactorNum == 120
CancelFactorDen == 100

\* the H256 the private channel's API answers with; the node does not know it
RelayHash == 0

\* a.saturating_mul(m).checked_div(d).unwrap_or_default() for values far
\* below U256::MAX, where the product does not saturate: floor(a * m / d),
\* computed without leaving the integer range
MulDiv(a, m, d) ==
    IF d = 0 THEN 0 ELSE (a \div d) * m + ((a % d) * m) \div d

\* the request of an ArbitrageTransaction: to is "none" for a request without
\* recipient, gas 0 for a zero gas limit, data "garbage" for bytes that are
\* not a call of the executor contract
WellFormed == [to |-> "contract", gas |-> 500000, data |-> "call"]

TxRequests ==
    {[to |-> r.to, gas |-> r.gas, data |-> r.data, use_mev_share |-> m] :
        r \in {WellFormed, [WellFormed EXCEPT !.to = "none"],
                [WellFormed EXCEPT !.gas = 0], [WellFormed EXCEPT !.data = "garbage"]},
        m \in BOOLEAN}

\* validate_transaction: a placeholder that checks nothing and returns Ok(())
ValidateTransaction(tx) == TRUE

\* the Transaction the node returns for a hash, None (<<>>) for a hash it
\* does not know
GetTransaction(h) ==
    IF h \in 1..Len(node) THEN <<node[h]>> ELSE <<>>

\* the nonce SignerMiddleware fills in: the sender's transaction count
NextNonce(from) ==
    Cardinality({node[h].nonce : h \in {i \in 1..Len(node) : node[i].from = from}})

\* the record of a payload handed to a submission channel; steps lists what
\* happened to the transaction object, in order
Submission(kind, channel, steps, typed_tx, of) ==
    [kind |-> kind, channel |-> channel, steps |-> steps, to |-> typed_tx.to,
     gas |-> typed_tx.gas, data |-> typed_tx.data, value |-> typed_tx.value,
     nonce |-> typed_tx.nonce, gas_price |-> typed_tx.gas_price, of |-> of]

\* MevShareClient::send_transaction: refuses when MEV-Share is disabled,
\* otherwise posts transaction.rlp(), the encoding of the transaction as it
\* was given (nobody has signed it), and returns the hash the API answers
MevShareSendTransaction(typed_tx, steps, net) ==
    IF ~mev_share_enabled
    THEN [ok |-> FALSE, hash |-> RelayHash, sent |-> sent, node |-> node]
    ELSE LET s == Submission("arbitrage", "mev_share", Append(steps, "Submitted"),
                             typed_tx, RelayHash)
         IN [ok |-> net = "accepted", hash |-> RelayHash,
             sent |-> Append(sent, s), node |-> node]

\* SignerMiddleware::send_transaction: fills in the sender and the nonce,
\* signs with the wallet and sends the raw transaction to the node, which
\* takes it into its pool or rejects it
SignerSendTransaction(kind, typed_tx, steps, of, net) ==
    LET s == Submission(kind, "public", steps \o <<"Signed", "Submitted">>, typed_tx, of)
        p == [from |-> WalletAddress, nonce |-> typed_tx.nonce,
              gas_price |-> typed_tx.gas_price, status |-> "pending", block |-> NoBlock]
    IN [ok |-> net = "accepted", hash |-> Len(node) + 1,
        sent |-> Append(sent, s),
        node |-> IF net = "accepted" THEN Append(node, p) ELSE node]

\* what the network may answer to a payload
NetAnswers == {"accepted", "refused"}

\* what get_optimal_gas_price may answer inside execute_transaction
GasAnswers == {GasFailed, 100}

\* an execute_transaction that hands the transaction to the node when the
\* private channel has refused it
ExecuteOutcomeFallbackMutant(tx, gas_price, net) ==
    LET failed == [ok |-> FALSE, hash |-> RelayHash, sent |-> sent, node |-> node]
        typed_tx == [to |-> tx.to, gas |-> tx.gas, data |-> tx.data, value |-> 0,
                     nonce |-> NextNonce(WalletAddress), gas_price |-> gas_price]
        steps == <<"Built", "GasPriced">>
        private == MevShareSendTransaction(typed_tx, steps, net)
    IN IF ~wallet \/ gas_price = GasFailed THEN failed
       ELSE IF tx.use_mev_share /\ private.ok THEN private
       ELSE SignerSendTransaction("arbitrage", typed_tx, steps, RelayHash, "accepted")

\* execute_transaction: validate, require the wallet, take the optimizer's
\* price, set it on the typed transaction, then hand the transaction to
\* MEV-Share or, through the signer, to the node
ExecuteOutcome(tx, gas_price, net) ==
    LET failed == [ok |-> FALSE, hash |-> RelayHash, sent |-> sent, node |-> node]
        typed_tx == [to |-> tx.to, gas |-> tx.gas, data |-> tx.data, value |-> 0,
                     nonce |-> NextNonce(WalletAddress), gas_price |-> gas_price]
        steps == <<"Built", "GasPriced">>
    IN IF ~ValidateTransaction(tx) THEN failed
       ELSE IF ~wallet THEN failed
       ELSE IF gas_price = GasFailed THEN failed
       ELSE IF tx.use_mev_share
            THEN MevShareSendTransaction(typed_tx, steps, net)
            ELSE SignerSendTransaction("arbitrage", typed_tx, steps, RelayHash, net)

ExecuteCall(tx, gas_price, net) ==
    /\ Len(sent) < MaxSent
    /\ \E o \in {ExecuteOutcome(tx, gas_price, net)} :
        /\ sent' = o.sent
        /\ node' = o.node
        /\ exec_call' = [op |-> "execute", tx |-> <<tx>>, hash |-> RelayHash,
                         found |-> <<>>, ok |-> o.ok, result |-> o.hash]
    /\ UNCHANGED <<wallet, mev_share_enabled>>
    /\ UNCHANGED notExecVars

ExecuteTransaction ==
    \E tx \in TxRequests, gas_price \in GasAnswers, net \in NetAnswers :
        ExecuteCall(tx, gas_price, net)

\* the gas price of the replacement: 120 % of the original's, None counting as 0
CancelGasPrice(gas_price) ==
    MulDiv(IF gas_price = NoGasPrice THEN 0 ELSE gas_price, CancelFactorNum, CancelFactorDen)

\* cancel_transaction: fetch the transaction, require the wallet, build a
\* legacy transaction to the original sender with the original nonce, no
\* value, no data and the raised gas price, sign it and send it
CancelOutcome(h, rpc, net) ==
    LET failed == [ok |-> FALSE, hash |-> RelayHash, sent |-> sent, node |-> node]
        found == GetTransaction(h)
    IN IF rpc = "error" THEN failed
       ELSE IF found = <<>> THEN failed
       ELSE IF ~wallet THEN failed
       ELSE LET tx == found[1]
                cancel_tx == [to |-> tx.from, gas |-> CancelGas, data |-> "empty",
                              value |-> 0, nonce |-> tx.nonce,
                              gas_price |-> CancelGasPrice(tx.gas_price)]
            IN SignerSendTransaction("cancel", cancel_tx, <<"Built", "GasPriced">>, h, net)

\* the node takes a replacement only for a transaction still in its pool
NodeAnswers(h) ==
    IF h \in 1..Len(node) /\ node[h].status = "pending" THEN NetAnswers ELSE {"refused"}

CancelTransaction ==
    \E h \in 1..(Len(node) + 1), rpc \in {"ok", "error"} :
      \E net \in NodeAnswers(h) :
        /\ Len(sent) < MaxSent
        /\ \E o \in {CancelOutcome(h, rpc, net)} :
            /\ sent' = o.sent
            /\ node' = o.node
            /\ exec_call' = [op |-> "cancel", tx |-> <<>>, hash |-> h,
                             found |-> IF rpc = "ok" THEN GetTransaction(h) ELSE <<>>,
                             ok |-> o.ok, result |-> o.hash]
        /\ UNCHANGED <<wallet, mev_share_enabled>>
        /\ UNCHANGED notExecVars

\* the number of the block the network builds next
NextBlock ==
    1 + Cardinality({h \in 1..Len(node) : node[h].block # NoBlock})

\* the network includes a pending transaction in a block, where it succeeds
\* or reverts; of two transactions of one sender with one nonce only one is
\* ever included
MineTransaction ==
    \E h \in 1..Len(node), status \in {"confirmed", "reverted"} :
        /\ node[h].status = "pending"
        /\ \A i \in 1..Len(node) :
            (node[i].from = node[h].from /\ node[i].nonce = node[h].nonce)
                => node[i].status = "pending"
        /\ node' = [node EXCEPT ![h].status = status, ![h].block = NextBlock]
        /\ UNCHANGED <<wallet, mev_share_enabled, sent, exec_call>>
        /\ UNCHANGED notExecVars

\* the gas prices of a transaction that is in the node's pool when the
\* executor is created
OrigGasPrices == {NoGasPrice, 4, 100}

NoExecCall ==
    [op |-> "none", tx |-> <<>>, hash |-> RelayHash, found |-> <<>>, ok |-> FALSE,
     result |-> RelayHash]

\* create_executor: the wallet is Some exactly when a private key is
\* configured; nothing has been handed to a channel
ExecInit ==
    /\ wallet \in BOOLEAN
    /\ mev_share_enabled \in BOOLEAN
    /\ node \in {<<>>} \cup
                {<<[from |-> WalletAddress, nonce |-> 0, gas_price |-> p, status |-> "pending",
                    block |-> NoBlock]>> : p \in OrigGasPrices}
    /\ sent = <<>>
    /\ exec_call = NoExecCall

ExecNext ==
    \/ ExecuteTransaction
    \/ CancelTransaction
    \/ MineTransaction

\* the executor asked to execute well-formed transactions on either route
\* and to cancel, while the network includes nothing
RouteNext ==
    \/ \E tx \in {r \in TxRequests : r.to = WellFormed.to /\ r.gas = WellFormed.gas /\ r.data = WellFormed.data},
          gas_price \in GasAnswers, net \in NetAnswers :
            ExecuteCall(tx, gas_price, net)
    \/ CancelTransaction

(***************************************************************************)
(* Waiting for a transaction                                               *)
(***************************************************************************)

\* the pause between two polls, in seconds
PollSecs == 1

\* get_transaction_status: the receipt decides; without one the result is
\* the pending snapshot, with one it carries the receipt's block number
GetTransactionStatus(h) ==
    IF h \in 1..Len(node) /\ node[h].status # "pending"
    THEN [block_number |-> node[h].block, success |-> node[h].status = "confirmed",
          error |-> IF node[h].status = "confirmed" THEN "none" ELSE "Transaction reverted"]
    ELSE [block_number |-> NoBlock, success |-> FALSE, error |-> "Transaction pending"]

\* start_time.elapsed() > timeout
TimedOutMutant(elapsed, timeout) == elapsed >= 0
TimedOut(elapsed, timeout) == elapsed > timeout

\* status.block_number.is_some()
IsIncludedMutant(status) == TRUE
IsIncluded(status) == status.block_number # NoBlock

NoWaitResult == [kind |-> "none", ok |-> FALSE, status |-> <<>>, at |-> 0]

\* the timeouts callers pass, in seconds
Timeouts == {0, 2}

\* wait_for_transaction is called: start_time = Instant::now()
WaitStart ==
    \E h \in 1..(Len(node) + 1), timeout \in Timeouts :
        /\ wait_pc \in {"idle", "done"}
        /\ tx_now < MaxClock
        /\ wait_pc' = "check"
        /\ wait_hash' = h
        /\ wait_timeout' = timeout
        /\ start_time' = tx_now
        /\ wake_at' = tx_now
        /\ wait_result' = NoWaitResult
        /\ UNCHANGED tx_now
        /\ UNCHANGED notWaitVars

\* the head of the loop: fail once the timeout is exceeded
WaitCheck ==
    /\ wait_pc = "check"
    /\ IF TimedOut(tx_now - start_time, wait_timeout)
       THEN /\ wait_pc' = "done"
            /\ wait_result' = [kind |-> "timeout", ok |-> FALSE, status |-> <<>>, at |-> tx_now]
       ELSE /\ wait_pc' = "poll"
            /\ UNCHANGED wait_result
    /\ UNCHANGED <<tx_now, wait_hash, wait_timeout, start_time, wake_at>>
    /\ UNCHANGED notWaitVars

\* the poll: an Err of get_transaction_status ends the call, an included
\* status is returned, anything else leads to the sleep
WaitPoll ==
    \E rpc \in {"ok", "error"} :
        /\ wait_pc = "poll"
        /\ \E status \in {GetTransactionStatus(wait_hash)} :
            IF rpc = "error"
            THEN /\ wait_pc' = "done"
                 /\ wait_result' = [kind |-> "rpc", ok |-> FALSE, status |-> <<>>, at |-> tx_now]
                 /\ UNCHANGED wake_at
            ELSE IF IsIncluded(status)
            THEN /\ wait_pc' = "done"
                 /\ wait_result' = [kind |-> "status", ok |-> TRUE, status |-> <<status>>,
                                    at |-> tx_now]
                 /\ UNCHANGED wake_at
            ELSE /\ wait_pc' = "sleep"
                 /\ wake_at' = tx_now + PollSecs
                 /\ UNCHANGED wait_result
        /\ UNCHANGED <<tx_now, wait_hash, wait_timeout, start_time>>
        /\ UNCHANGED notWaitVars

\* tokio::time::sleep(1 s) is over
WaitWake ==
    /\ wait_pc = "sleep"
    /\ tx_now >= wake_at
    /\ wait_pc' = "check"
    /\ UNCHANGED <<tx_now, wait_hash, wait_timeout, start_time, wake_at, wait_result>>
    /\ UNCHANGED notWaitVars

\* a second passes; a sleep that has begun always sees its second pass
WaitTick ==
    /\ tx_now < MaxClock \/ (wait_pc = "sleep" /\ tx_now < wake_at)
    /\ tx_now' = tx_now + 1
    /\ UNCHANGED <<wait_pc, wait_hash, wait_timeout, start_time, wake_at, wait_result>>
    /\ UNCHANGED notWaitVars

\* no wait_for_transaction call has been made
WaitIdle ==
    /\ tx_now = 0
    /\ wait_pc = "idle"
    /\ wait_hash = RelayHash
    /\ wait_timeout = 0
    /\ start_time = 0
    /\ wake_at = 0
    /\ wait_result = NoWaitResult

\* the executor with a wallet and one transaction of its own in the node's pool
WaitInit ==
    /\ WaitIdle
    /\ wallet = TRUE
    /\ mev_share_enabled = FALSE
    /\ node = <<[from |-> WalletAddress, nonce |-> 0, gas_price |-> 100, status |-> "pending",
                 block |-> NoBlock]>>
    /\ sent = <<>>
    /\ exec_call = NoExecCall

WaitNext ==
    \/ WaitStart
    \/ WaitCheck
    \/ WaitPoll
    \/ WaitWake
    \/ WaitTick
    \/ MineTransaction

(***************************************************************************)
(* Gas optimizer                                                           *)
(***************************************************************************)

\* tasks that call the one optimizer
GasCallers == {"g1", "g2"}

\* wei per gwei
GweiInWei == 1000000000

\* config.gas: max_gas_price and priority_fee in gwei, base_fee_multiplier
\* (1.2) as a fraction
MaxGasPrice == 1
PriorityFee == 1
BaseFeeMultiplierNum == 12
BaseFeeMultiplierDen == 10

\* U256::from(config.gas.max_gas_price * 1_000_000_000)
GasCeiling == MaxGasPrice * GweiInWei

\* (config.gas.base_fee_multiplier * 100.0) as u64: the multiplier in
\* hundredths, the rest cut off
MultiplierPercent == (BaseFeeMultiplierNum * 100) \div BaseFeeMultiplierDen

\* the age beyond which the estimate is refreshed, in seconds
RefreshWindow == 15

\* last_update of the constructor: an hour before its Instant::now()
NeverUpdated == 0 - 3600

\* what the node answers to the requests of refresh r: a low-fee block for
\* odd r, a high-fee block for even r
LiveBaseFee(r) == IF r % 2 = 1 THEN 7 ELSE 900000000
LivePriorityFee(r) == IF r % 2 = 1 THEN 2 ELSE 200000000
LiveGasPrice(r) == IF r % 2 = 1 THEN 3 ELSE 1500000000

\* a field of the optimizer: its value and, as history, the refresh that
\* wrote it (0: the constructor)
Field(val, gen) == [val |-> val, gen |-> gen]
NoField == Field(0, 0 - 1)

\* std::cmp::min
Min(a, b) == IF a < b THEN a ELSE b

\* the cap on the returned price
CappedMutant(price) == price
Capped(price) == Min(price, GasCeiling)

\* max_fee_per_gas of the Eip1559 arm, before the cap
MaxFeePerGas(base_fee, priority_fee) ==
    MulDiv(base_fee, MultiplierPercent, 100) + priority_fee

\* last_update.elapsed() > Duration::from_secs(15)
Stale == gas_now - gas_last_update > RefreshWindow

IdleCall == [pc |-> "idle", op |-> "none", level |-> "none", gen |-> 0, base |-> NoField]

\* a task that makes no calls
AbsentCall == [IdleCall EXCEPT !.pc = "absent"]

NoGasResult ==
    [op |-> "none", ok |-> FALSE, price |-> 0, base |-> NoField, prio |-> NoField,
     est |-> NoField]

\* the call of c returns
GasReturn(c, result) ==
    /\ gcall' = [gcall EXCEPT ![c] = IdleCall]
    /\ gas_result' = result

GasFailure(c) == [NoGasResult EXCEPT !.op = gcall[c].op]

\* a task calls get_optimal_gas_price or get_eip1559_fee_data
GasCall ==
    \E c \in GasCallers, op \in {"optimal", "fee_data"} :
        /\ gcall[c].pc = "idle"
        /\ gcall' = [gcall EXCEPT ![c] =
                        [IdleCall EXCEPT !.pc = "check", !.op = op,
                                         !.level = IF op = "optimal" THEN "opt" ELSE "fee"]]
        /\ UNCHANGED <<gas_strategy, current_gas_price, current_base_fee, current_priority_fee,
                       gas_last_update, gas_now, refresh_starts, gas_result>>
        /\ UNCHANGED notGasVars

\* the head of both functions: read last_update and, when it is older than
\* the window, call update_gas_price_estimate, which requests the latest block
GasCheck ==
    \E c \in GasCallers :
        /\ gcall[c].pc = "check"
        /\ Stale => Len(refresh_starts) < MaxRefreshes
        /\ IF Stale
           THEN /\ refresh_starts' = Append(refresh_starts, gas_now)
                /\ gcall' = [gcall EXCEPT ![c].pc = "block",
                                          ![c].gen = Len(refresh_starts) + 1]
           ELSE /\ gcall' = [gcall EXCEPT ![c].pc = "finish"]
                /\ UNCHANGED refresh_starts
        /\ UNCHANGED <<gas_strategy, current_gas_price, current_base_fee, current_priority_fee,
                       gas_last_update, gas_now, gas_result>>
        /\ UNCHANGED notGasVars

\* get_block answers: an Err ends the call, None ends the refresh with a
\* warning, the base fee of a block (every block of the chain has one) is
\* written
GasBlock ==
    \E c \in GasCallers, answer \in {"error", "none", "block"} :
        /\ gcall[c].pc = "block"
        /\ IF answer = "error"
           THEN /\ GasReturn(c, GasFailure(c))
                /\ UNCHANGED current_base_fee
           ELSE /\ gcall' = [gcall EXCEPT ![c].pc = IF answer = "none" THEN "finish" ELSE "history"]
                /\ current_base_fee' =
                      IF answer = "block"
                      THEN Field(LiveBaseFee(gcall[c].gen), gcall[c].gen)
                      ELSE current_base_fee
                /\ UNCHANGED gas_result
        /\ UNCHANGED <<gas_strategy, current_gas_price, current_priority_fee,
                       gas_last_update, gas_now, refresh_starts>>
        /\ UNCHANGED notGasVars

\* fee_history answers: an Err ends the call, the median of the three
\* percentiles asked for is written
GasHistory ==
    \E c \in GasCallers, answer \in {"error", "rewards"} :
        /\ gcall[c].pc = "history"
        /\ IF answer = "error"
           THEN /\ GasReturn(c, GasFailure(c))
                /\ UNCHANGED current_priority_fee
           ELSE /\ gcall' = [gcall EXCEPT ![c].pc = "price"]
                /\ current_priority_fee' =
                      IF answer = "rewards"
                      THEN Field(LivePriorityFee(gcall[c].gen), gcall[c].gen)
                      ELSE current_priority_fee
                /\ UNCHANGED gas_result
        /\ UNCHANGED <<gas_strategy, current_gas_price, current_base_fee,
                       gas_last_update, gas_now, refresh_starts>>
        /\ UNCHANGED notGasVars

\* get_gas_price answers: an Err ends the call, a price is written together
\* with last_update
GasPrice ==
    \E c \in GasCallers, answer \in {"error", "price"} :
        /\ gcall[c].pc = "price"
        /\ IF answer = "error"
           THEN /\ GasReturn(c, GasFailure(c))
                /\ UNCHANGED <<current_gas_price, gas_last_update>>
           ELSE /\ gcall' = [gcall EXCEPT ![c].pc = "finish"]
                /\ current_gas_price' = Field(LiveGasPrice(gcall[c].gen), gcall[c].gen)
                /\ gas_last_update' = gas_now
                /\ UNCHANGED gas_result
        /\ UNCHANGED <<gas_strategy, current_base_fee, current_priority_fee,
                       gas_now, refresh_starts>>
        /\ UNCHANGED notGasVars

\* past the staleness check. get_optimal_gas_price: by strategy return the
\* ceiling, return the capped estimate, or call get_eip1559_fee_data;
\* get_eip1559_fee_data: read current_base_fee
GasFinish ==
    \E c \in GasCallers :
        /\ gcall[c].pc = "finish"
        /\ IF gcall[c].level = "fee"
           THEN /\ gcall' = [gcall EXCEPT ![c].pc = "read_priority", ![c].base = current_base_fee]
                /\ UNCHANGED gas_result
           ELSE IF gas_strategy = "Fixed"
           THEN GasReturn(c, [NoGasResult EXCEPT !.op = "optimal", !.ok = TRUE,
                                                 !.price = GasCeiling])
           ELSE IF gas_strategy = "Dynamic"
           THEN GasReturn(c, [NoGasResult EXCEPT !.op = "optimal", !.ok = TRUE,
                                                 !.price = Capped(current_gas_price.val),
                                                 !.est = current_gas_price])
           ELSE /\ gcall' = [gcall EXCEPT ![c].pc = "check", ![c].level = "fee"]
                /\ UNCHANGED gas_result
        /\ UNCHANGED <<gas_strategy, current_gas_price, current_base_fee, current_priority_fee,
                       gas_last_update, gas_now, refresh_starts>>
        /\ UNCHANGED notGasVars

\* get_eip1559_fee_data reads current_priority_fee and returns the pair, from
\* which get_optimal_gas_price computes the capped max fee
GasReadPriority ==
    \E c \in GasCallers :
        /\ gcall[c].pc = "read_priority"
        /\ GasReturn(c, [NoGasResult EXCEPT
                            !.op = gcall[c].op, !.ok = TRUE,
                            !.base = gcall[c].base, !.prio = current_priority_fee,
                            !.price = IF gcall[c].op = "optimal"
                                      THEN Capped(MaxFeePerGas(gcall[c].base.val,
                                                               current_priority_fee.val))
                                      ELSE 0])
        /\ UNCHANGED <<gas_strategy, current_gas_price, current_base_fee, current_priority_fee,
                       gas_last_update, gas_now, refresh_starts>>
        /\ UNCHANGED notGasVars

\* time passes
GasTick ==
    /\ gas_now < GasTickSecs * MaxGasTicks
    /\ gas_now' = gas_now + GasTickSecs
    /\ UNCHANGED <<gas_strategy, current_gas_price, current_base_fee, current_priority_fee,
                   gas_last_update, refresh_starts, gcall, gas_result>>
    /\ UNCHANGED notGasVars

\* create_optimizer whose first update found no latest block: the fields of
\* the constructor
GasUnrefreshed ==
    /\ current_gas_price = Field(GasCeiling, 0)
    /\ current_base_fee = Field(0, 0)
    /\ current_priority_fee = Field(PriorityFee * GweiInWei, 0)
    /\ gas_last_update = NeverUpdated
    /\ refresh_starts = <<>>

\* create_optimizer whose first update, refresh 1 at time 0, went through
GasRefreshed ==
    /\ current_gas_price = Field(LiveGasPrice(1), 1)
    /\ current_base_fee = Field(LiveBaseFee(1), 1)
    /\ current_priority_fee = Field(LivePriorityFee(1), 1)
    /\ gas_last_update = 0
    /\ refresh_starts = <<0>>

GasQuiet ==
    /\ gas_now = 0
    /\ gcall = [c \in GasCallers |-> IdleCall]
    /\ gas_result = NoGasResult

GasInit ==
    /\ gas_strategy \in {"Fixed", "Eip1559", "Dynamic"}
    /\ GasUnrefreshed \/ GasRefreshed
    /\ GasQuiet

\* the optimizer with a single task calling it: the other one never calls
GasSeqInit ==
    /\ gas_strategy \in {"Fixed", "Eip1559", "Dynamic"}
    /\ GasUnrefreshed \/ GasRefreshed
    /\ gas_now = 0
    /\ gcall = [c \in GasCallers |-> IF c = "g1" THEN IdleCall ELSE AbsentCall]
    /\ gas_result = NoGasResult

\* the optimizer while another component is explored
GasIdle ==
    /\ gas_strategy = "Eip1559"
    /\ GasUnrefreshed
    /\ GasQuiet

GasNext ==
    \/ GasCall
    \/ GasCheck
    \/ GasBlock
    \/ GasHistory
    \/ GasPrice
    \/ GasFinish
    \/ GasReadPriority
    \/ GasTick

(***************************************************************************)
(* Transaction builder                                                     *)
(***************************************************************************)

\* A non-negative amount m * 10^e, written <<m, e>> with 1 <= m <= 9, and
\* <<0, 0>> for zero: the amounts of the builder are too wide for plain
\* integers, and only their size against u128::MAX matters.
Dec(m, e) ==
    IF m = 0 THEN <<0, 0>>
    ELSE IF m >= 10 /\ m % 10 = 0 THEN <<m \div 10, e + 1>>
    ELSE <<m, e>>

\* u128::MAX = 340282366920938463463374607431768211455: 3 * 10^38 fits,
\* 4 * 10^38 does not
U128Lead == 3
U128Exp == 38

FitsU128(a) == a[2] < U128Exp \/ (a[2] = U128Exp /\ a[1] <= U128Lead)

\* the exponent of 10u128.pow(18)
LoanDecimals == 18

\* (estimated_profit * 2.0) as u128: the cast saturates, it never fails
DoubledProfit(profit) ==
    LET d == Dec(profit[1] * 2, profit[2])
    IN IF FitsU128(d) THEN d ELSE <<U128Lead, U128Exp>>

\* ... * 10u128.pow(18): a u128 multiplication. When the product does not
\* fit, a build with overflow checks panics and one without them wraps
FlashLoanAmount(profit, checks) ==
    LET p == <<DoubledProfit(profit)[1], DoubledProfit(profit)[2] + LoanDecimals>>
    IN IF DoubledProfit(profit)[1] = 0 THEN [kind |-> "exact", amount |-> <<0, 0>>]
       ELSE IF FitsU128(p) THEN [kind |-> "exact", amount |-> p]
       ELSE IF checks THEN [kind |-> "panic", amount |-> <<0, 0>>]
       ELSE [kind |-> "wrapped", amount |-> <<0, 0>>]

\* The interface description of the executor contract, which the contract
\* manager loads: it has the executeArbitrage function with the six typed
\* parameters the builder passes, so that the call can be encoded
AbiEncodes == TRUE

\* build_calldata: with a contract manager the call of executeArbitrage
\* encoded through its interface description, which fails when the function
\* is not there or does not take the arguments; without one a dummy
\* selector followed by the raw bytes of the arguments
BuildCalldata(manager) ==
    IF manager # "none"
    THEN IF AbiEncodes THEN [ok |-> TRUE, data |-> "executeArbitrage"]
         ELSE [ok |-> FALSE, data |-> "none"]
    ELSE [ok |-> TRUE, data |-> "dummy_selector"]

\* the opportunities handed to the builder: the scanner's cycle, a direct
\* pair, and one without tokens
BuildPaths == {<<>>, <<"ETH", "USDC">>, <<"ETH", "USDC", "ETH">>}

\* their estimated profits in USD: 50, 10^20 and 2 * 10^20
BuildProfits == {<<5, 1>>, <<1, 20>>, <<2, 20>>}

BuildOpportunities ==
    [token_path : BuildPaths, estimated_profit : BuildProfits,
     source_dex : {"UniswapV2"}, target_dex : {"Sushiswap", "Curve"}]

\* build_arbitrage_transaction: the outcome is "ok" with the transaction,
\* "err" or "panic"
BuildOutcome(op, manager, checks) ==
    LET loan == FlashLoanAmount(op.estimated_profit, checks)
        calldata == BuildCalldata(manager)
        none == [outcome |-> "none", request |-> "none", to |-> "none", data |-> "none",
                 loan |-> loan.kind]
    IN IF loan.kind = "panic" THEN [none EXCEPT !.outcome = "panic"]
       ELSE IF ~calldata.ok THEN [none EXCEPT !.outcome = "err"]
       ELSE IF manager = "deployed"
       THEN IF op.token_path = <<>> THEN [none EXCEPT !.outcome = "panic"]
            ELSE [none EXCEPT !.outcome = "ok", !.request = "contract_call",
                              !.to = "contract", !.data = "executeArbitrage"]
       ELSE [none EXCEPT !.outcome = "ok", !.request = "placeholder",
                         !.to = WalletAddress, !.data = calldata.data]

BuildArbitrageTransaction ==
    \E op \in BuildOpportunities :
        /\ build_call' = [op |-> <<op>>, manager |-> contract_manager,
                          result |-> BuildOutcome(op, contract_manager, overflow_checks)]
        /\ UNCHANGED <<contract_manager, overflow_checks>>
        /\ UNCHANGED notBuildVars

\* the executor contract is deployed and its address set on the manager
DeployContract ==
    /\ contract_manager = "undeployed"
    /\ contract_manager' = "deployed"
    /\ UNCHANGED <<overflow_checks, build_call>>
    /\ UNCHANGED notBuildVars

NoBuildCall ==
    [op |-> <<>>, manager |-> "none",
     result |-> [outcome |-> "none", request |-> "none", to |-> "none", data |-> "none",
                 loan |-> "none"]]

\* create_builder: with no contract manager or with the one create_manager
\* returns, which has no address; the binary is built with or without
\* overflow checks
BuildInit ==
    /\ contract_manager \in {"none", "undeployed"}
    /\ overflow_checks \in BOOLEAN
    /\ build_call = NoBuildCall

\* the builder while another component is explored
BuildIdle ==
    /\ contract_manager = "none"
    /\ overflow_checks = FALSE
    /\ build_call = NoBuildCall

BuildNext ==
    \/ BuildArbitrageTransaction
    \/ DeployContract

(***************************************************************************)
(* The two-venue scenario: scan() followed by evaluate_opportunities       *)
(***************************************************************************)

\* the outputs of the two venues for 1 ETH, in units of USDC (6 decimals)
QuoteHigh == 1000 * Pow10(6)
QuoteLow == 990 * Pow10(6)

\* the sources' answers for the create_oracle pass of the scenario: the
\* placeholder prices for ETH, 1 for USDC
ScenarioSamples ==
    [t \in Tokens |->
        [s \in InitialSources |-> IF t = "USDC" THEN 1 ELSE CHOOSE v \in SourceVals(s) : TRUE]]

\* the venues' answers: for ETH -> USDC one venue quotes the high output,
\* another the low one and the third fails; for USDC -> ETH any of the back
\* quotes
ScenarioQuotes ==
    {[p \in QuotedPairs |->
        IF p[1] < p[2]
        THEN [v \in Venues |-> IF v = hl[1] THEN QuoteHigh
                                ELSE IF v = hl[2] THEN QuoteLow ELSE QuoteFailed]
        ELSE b] : hl \in {x \in Venues \X Venues : x[1] # x[2]}, b \in BackQuotes}

ScenarioInit ==
    /\ ScanInit
    /\ sources = InitialSources
    /\ now = 0
    /\ oracle_last_update = 0
    /\ prices = UpdateAll(ZeroPrices, <<"ETH", "USDC">>, 1, ScenarioSamples, 0)
    /\ last_samples = ScenarioSamples
    /\ last_read = NoRead
    /\ last_quote = NoQuote
    /\ eval_input = <<>>
    /\ eval_gas = <<>>
    /\ eval_result = <<>>
    /\ calc_call = NoCalc
    /\ path_call = NoPath
    /\ min_profit_threshold = 5

\* evaluate_opportunities on what the latest scan() returned
EvaluateScanned == Evaluate(opportunities)

ScenarioNext ==
    \/ ScanTick /\ UNCHANGED notPriceVars
    \/ \E qs \in ScenarioQuotes :
          ScanCall(qs, <<"ETH", "USDC">>, ScenarioSamples) /\ UNCHANGED notScanVars
    \/ EvaluateScanned /\ UNCHANGED notStratVars

(***************************************************************************)
(* Retry with backoff                                                      *)
(***************************************************************************)

\* the initial_backoff values callers pass, in seconds
Backoffs == {0, 1, 2, 3}

\* a guard that lets one more retry through
RetriesExhaustedMutant(n, limit) == n > limit

\* `if retries >= max_retries`
RetriesExhausted(n, limit) == n >= limit

\* backoff.saturating_mul(2): the doubled values of the model stay far below
\* Duration::MAX, where the product does not saturate
SaturatingDouble(d) == 2 * d

NoRetryResult == [ok |-> FALSE, of |-> 0]

\* no retry_with_backoff call has been made
RetryIdle ==
    /\ retry_pc = "idle"
    /\ max_retries = 0
    /\ initial_backoff = 0
    /\ retries = 0
    /\ backoff = 0
    /\ outcomes = <<>>
    /\ slept = <<>>
    /\ retry_result = NoRetryResult

\* retry_with_backoff is called: retries = 0, backoff = initial_backoff
RetryStart ==
    \E m \in 0..MaxRetries, b \in Backoffs :
        /\ retry_pc = "idle"
        /\ retry_pc' = "call"
        /\ max_retries' = m
        /\ initial_backoff' = b
        /\ retries' = 0
        /\ backoff' = b
        /\ UNCHANGED <<outcomes, slept, retry_result>>
        /\ UNCHANGED notRetryVars

\* f().await returns Ok or Err; the value of the k-th invocation is k. Ok is
\* returned at once; Err is returned when the retries are used up, else the
\* sleep of the current backoff begins
RetryInvoke ==
    \E ok \in BOOLEAN :
        /\ retry_pc = "call"
        /\ outcomes' = Append(outcomes, ok)
        /\ IF ok
           THEN /\ retry_pc' = "done"
                /\ retry_result' = [ok |-> TRUE, of |-> Len(outcomes) + 1]
                /\ UNCHANGED slept
           ELSE IF RetriesExhausted(retries, max_retries)
           THEN /\ retry_pc' = "done"
                /\ retry_result' = [ok |-> FALSE, of |-> Len(outcomes) + 1]
                /\ UNCHANGED slept
           ELSE /\ retry_pc' = "sleep"
                /\ slept' = Append(slept, backoff)
                /\ UNCHANGED retry_result
        /\ UNCHANGED <<max_retries, initial_backoff, retries, backoff>>
        /\ UNCHANGED notRetryVars

\* tokio::time::sleep(backoff) is over: retries += 1 and the backoff doubles
RetryWake ==
    /\ retry_pc = "sleep"
    /\ retry_pc' = "call"
    /\ retries' = retries + 1
    /\ backoff' = SaturatingDouble(backoff)
    /\ UNCHANGED <<max_retries, initial_backoff, outcomes, slept, retry_result>>
    /\ UNCHANGED notRetryVars

RetryNext ==
    \/ RetryStart
    \/ RetryInvoke
    \/ RetryWake

(***************************************************************************)
(* One producer task and its processing task                               *)
(***************************************************************************)

\* the producer task holds the queue's sender, the processing task its receiver
SenderAlive == prod_pc # "ended"
ReceiverAlive == cons_pc \notin {"gone", "ended"}

\* a send that drops the number when the queue is full
SendOutcomeMutant(receiver_alive, len) ==
    IF ~receiver_alive THEN "closed" ELSE IF len < ChannelCapacity THEN "sent" ELSE "dropped"

\* tx.send(block_number).await on a queue that holds len numbers: Err once
\* the receiver is dropped, the number is queued when there is room, and the
\* task waits otherwise
SendOutcome(receiver_alive, len) ==
    IF ~receiver_alive THEN "closed" ELSE IF len < ChannelCapacity THEN "sent" ELSE "wait"

\* a process_block that treats a missing block like a found one
AfterGetBlockMutant(answer) ==
    CASE answer = "error" -> "err"
      [] answer = "none" -> "update_prices"
      [] answer = "found" -> "update_prices"

\* process_block after get_block_with_txs(block_number).await?: an Err of
\* the node is returned, None is logged and Ok(()) is returned, Some(block)
\* leads to the price update
AfterGetBlock(answer) ==
    CASE answer = "error" -> "err"
      [] answer = "none" -> "ok"
      [] answer = "found" -> "update_prices"

\* process_block after self.price_oracle.update_prices().await?
AfterUpdatePrices(result) == IF result = "ok" THEN "scan" ELSE "err"

\* what PriceOracle::update_prices returns: Ok(()) on every path
UpdatePricesResults == {"ok"}

\* process_block after self.scanner.scan().await?
AfterScan(result) == IF result = "ok" THEN "ok" ELSE "err"

\* how scan() ends inside process_block: it returns Ok on every path, or it
\* panics (as_u128 of a profit above u128::MAX, the unwrap of the system
\* time), which unwinds the processing task
ScanEndings == {"ok", "panic"}

\* the producer and the processing task as start() spawns them, with a block
\* source that hands out n numbers
PipeStart(kind, n) ==
    /\ feed_kind = kind
    /\ blocks_left = n
    /\ height = 0
    /\ prod_pc = "next"
    /\ holding = 0
    /\ poll_last = 0
    /\ queue = <<>>
    /\ emitted = <<>>
    /\ enqueued = <<>>
    /\ cons_pc = "recv"
    /\ cur_block = 0
    /\ handled = <<>>
    /\ pb_trace = <<>>
    /\ pb_result = "none"

\* the feed has not been started
PipeIdle ==
    /\ feed_kind = "none"
    /\ blocks_left = 0
    /\ height = 0
    /\ prod_pc = "ended"
    /\ holding = 0
    /\ poll_last = 0
    /\ queue = <<>>
    /\ emitted = <<>>
    /\ enqueued = <<>>
    /\ cons_pc = "ended"
    /\ cur_block = 0
    /\ handled = <<>>
    /\ pb_trace = <<>>
    /\ pb_result = "none"

\* the chain grows by one block
ChainGrows ==
    /\ feed_kind = "poll"
    /\ blocks_left > 0
    /\ blocks_left' = blocks_left - 1
    /\ height' = height + 1
    /\ UNCHANGED <<feed_kind, prod_pc, holding, poll_last, queue, emitted, enqueued, cons_pc,
                   cur_block, handled, pb_trace, pb_result>>
    /\ UNCHANGED notPipeVars

\* stream.next().await yields the header of the next block: the producer
\* takes its number to tx.send
StreamYields ==
    /\ feed_kind = "stream"
    /\ prod_pc = "next"
    /\ blocks_left > 0
    /\ blocks_left' = blocks_left - 1
    /\ height' = height + 1
    /\ holding' = height + 1
    /\ emitted' = Append(emitted, height + 1)
    /\ prod_pc' = "send"
    /\ UNCHANGED <<feed_kind, poll_last, queue, enqueued, cons_pc, cur_block, handled,
                   pb_trace, pb_result>>
    /\ UNCHANGED notPipeVars

\* stream.next().await yields None: the producer task returns
SubscriptionEnds ==
    /\ feed_kind = "stream"
    /\ prod_pc = "next"
    /\ prod_pc' = "ended"
    /\ UNCHANGED <<feed_kind, blocks_left, height, holding, poll_last, queue, emitted, enqueued,
                   cons_pc, cur_block, handled, pb_trace, pb_result>>
    /\ UNCHANGED notPipeVars

\* one get_block_number() of the polling loop: an Err is logged, a height
\* above last_block_number is taken to tx.send, anything else leads to the
\* sleep
PollBlockNumber ==
    \E rpc \in {"ok", "error"} :
        /\ feed_kind = "poll"
        /\ prod_pc = "next"
        /\ IF rpc = "ok" /\ height > poll_last
           THEN /\ poll_last' = height
                /\ holding' = height
                /\ emitted' = Append(emitted, height)
                /\ prod_pc' = "send"
           ELSE /\ prod_pc' = "sleep"
                /\ UNCHANGED <<poll_last, holding, emitted>>
        /\ UNCHANGED <<feed_kind, blocks_left, height, queue, enqueued, cons_pc, cur_block,
                       handled, pb_trace, pb_result>>
        /\ UNCHANGED notPipeVars

\* tx.send(block_number).await returns: Ok after the number is queued, Err
\* when the receiver is gone (the producer logs it and breaks out of its loop)
ProducerSend ==
    /\ prod_pc = "send"
    /\ \E outcome \in {SendOutcome(ReceiverAlive, Len(queue))} :
        /\ outcome # "wait"
        /\ IF outcome = "sent"
           THEN /\ queue' = Append(queue, holding)
                /\ enqueued' = Append(enqueued, holding)
           ELSE UNCHANGED <<queue, enqueued>>
        /\ prod_pc' = IF outcome = "closed" THEN "ended"
                      ELSE IF feed_kind = "poll" THEN "sleep" ELSE "next"
    /\ holding' = 0
    /\ UNCHANGED <<feed_kind, blocks_left, height, poll_last, emitted, cons_pc, cur_block,
                   handled, pb_trace, pb_result>>
    /\ UNCHANGED notPipeVars

\* tokio::time::sleep(polling_interval) is over
PollSleepOver ==
    /\ prod_pc = "sleep"
    /\ prod_pc' = "next"
    /\ UNCHANGED <<feed_kind, blocks_left, height, holding, poll_last, queue, emitted, enqueued,
                   cons_pc, cur_block, handled, pb_trace, pb_result>>
    /\ UNCHANGED notPipeVars

\* rx.recv().await yields the head of the queue: process_block is invoked
Dequeue ==
    /\ cons_pc = "recv"
    /\ queue # <<>>
    /\ cur_block' = Head(queue)
    /\ queue' = Tail(queue)
    /\ handled' = Append(handled, Head(queue))
    /\ pb_trace' = <<>>
    /\ pb_result' = "running"
    /\ cons_pc' = "get_block"
    /\ UNCHANGED <<feed_kind, blocks_left, height, prod_pc, holding, poll_last, emitted,
                   enqueued>>
    /\ UNCHANGED notPipeVars

\* rx.recv().await yields None: the queue is empty and the sender is dropped
ProcessingEnds ==
    /\ cons_pc = "recv"
    /\ queue = <<>>
    /\ ~SenderAlive
    /\ feed_kind # "none"
    /\ cons_pc' = "ended"
    /\ UNCHANGED <<feed_kind, blocks_left, height, prod_pc, holding, poll_last, queue, emitted,
                   enqueued, cur_block, handled, pb_trace, pb_result>>
    /\ UNCHANGED notPipeVars

\* a processing task that returns when process_block has failed
AfterProcessBlockMutant(result) == IF result = "err" THEN "ended" ELSE "recv"

\* the body of `while let Some(block_number) = rx.recv().await`: an Err of
\* process_block is logged, and the loop goes back to rx.recv()
AfterProcessBlock(result) == "recv"

\* the step of process_block that leads to `next`: "ok" and "err" return to
\* the loop of the processing task, which logs an Err and goes on
ProcessBlockStep(step, answer, next) ==
    /\ pb_trace' = Append(pb_trace, <<step, answer>>)
    /\ IF next \in {"ok", "err"}
       THEN /\ pb_result' = next
            /\ cons_pc' = AfterProcessBlock(next)
            /\ cur_block' = 0
       ELSE /\ cons_pc' = next
            /\ UNCHANGED <<pb_result, cur_block>>
    /\ UNCHANGED <<feed_kind, blocks_left, height, prod_pc, holding, poll_last, queue, emitted,
                   enqueued, handled>>
    /\ UNCHANGED notPipeVars

\* process_block: get_block_with_txs(block_number)
GetBlockWithTxs ==
    \E answer \in {"error", "none", "found"} :
        /\ cons_pc = "get_block"
        /\ ProcessBlockStep("get_block", answer, AfterGetBlock(answer))

\* process_block: price_oracle.update_prices()
ProcessUpdatePrices ==
    \E result \in UpdatePricesResults :
        /\ cons_pc = "update_prices"
        /\ ProcessBlockStep("update_prices", result, AfterUpdatePrices(result))

\* process_block: scanner.scan() returns
ProcessScan ==
    /\ cons_pc = "scan"
    /\ ProcessBlockStep("scan", "ok", AfterScan("ok"))

\* process_block: scanner.scan() panics; the processing task unwinds and
\* drops the receiver with what is still queued
ProcessScanPanics ==
    /\ cons_pc = "scan"
    /\ "panic" \in ScanEndings
    /\ pb_trace' = Append(pb_trace, <<"scan", "panic">>)
    /\ pb_result' = "panic"
    /\ cons_pc' = "gone"
    /\ queue' = <<>>
    /\ UNCHANGED <<feed_kind, blocks_left, height, prod_pc, holding, poll_last, emitted,
                   enqueued, cur_block, handled>>
    /\ UNCHANGED notPipeVars

PipeNext ==
    \/ ChainGrows
    \/ StreamYields
    \/ SubscriptionEnds
    \/ PollBlockNumber
    \/ ProducerSend
    \/ PollSleepOver
    \/ Dequeue
    \/ ProcessingEnds
    \/ GetBlockWithTxs
    \/ ProcessUpdatePrices
    \/ ProcessScan
    \/ ProcessScanPanics

\* the feed on a subscription whose source hands out more numbers than the
\* queue holds, or on polling
DeliveryInit ==
    \/ PipeStart("stream", MaxEmit)
    \/ PipeStart("poll", MaxPolled)

\* the feed with a short block source
PipeInit ==
    \E kind \in {"stream", "poll"} : PipeStart(kind, MaxPolled)

\* the feed's two tasks next to the background loop of a scanner that is
\* started and not stopped, whose scans get no answer from any venue
RecoverNext ==
    \/ PipeNext
    \/ StartContinuousScanning /\ UNCHANGED notScanVars
    \/ \E l \in Loops : LoopCheck(l) /\ UNCHANGED notScanVars
    \/ \E l \in Loops :
          LoopScan(l, [p \in QuotedPairs |-> [v \in Venues |-> QuoteFailed]], <<"ETH", "USDC">>, NoSamples)
          /\ UNCHANGED notScanVars
    \/ \E l \in Loops : LoopWake(l) /\ UNCHANGED notScanVars

(***************************************************************************)
(* The status of a transaction                                             *)
(***************************************************************************)

\* Option<T>: None is <<>>, Some(v) is <<v>>
OptionOf(S) == {<<>>} \cup {<<v>> : v \in S}

\* Option<U64>::unwrap_or_default()
UnwrapOrDefault(o) == IF o = <<>> THEN 0 ELSE o[1]

\* `receipt.status.unwrap_or_default().as_u64() == 1`
ReceiptSuccess(status) == UnwrapOrDefault(status) = 1

\* the receipts the node can answer with: the status is absent (a receipt
\* from before Byzantium) or a U64, the block number and the gas used are
\* Options too
Receipts == [status : OptionOf(0..2), block_number : OptionOf(1..2), gas_used : OptionOf({21000})]

\* the transactions the node can answer with, by their gas price
NodeTxs == [gas_price : OptionOf({4, 100})]

\* the match of get_transaction_status on the receipt; the cost saturates at
\* 2^256, out of reach of the values here
StatusOfReceipt(receipt, tx) ==
    IF receipt = <<>>
    THEN [block_number |-> <<>>, gas_used |-> <<>>, actual_cost |-> <<>>, success |-> FALSE,
          error |-> <<"Transaction pending">>]
    ELSE LET r == receipt[1]
             success == ReceiptSuccess(r.status)
             gas_price == IF tx = <<>> THEN <<>> ELSE tx[1].gas_price
         IN [block_number |-> r.block_number,
             gas_used |-> r.gas_used,
             actual_cost |-> IF r.gas_used = <<>> \/ gas_price = <<>> THEN <<>>
                             ELSE <<r.gas_used[1] * gas_price[1]>>,
             success |-> success,
             error |-> IF ~success THEN <<"Transaction reverted">> ELSE <<>>]

NoStatusCall == [rpc |-> "none", receipt |-> <<>>, tx |-> <<>>, result |-> <<>>]

\* no get_transaction_status call is looked at
StatusIdle == status_call = NoStatusCall

\* get_transaction_status: get_transaction_receipt and get_transaction are
\* asked in this order, an Err of either is returned by `?`, else the result
\* is built from the two answers
GetStatusCall ==
    \E rpc \in {"ok", "receipt_err", "tx_err"}, receipt \in OptionOf(Receipts), tx \in OptionOf(NodeTxs) :
        /\ status_call' = [rpc |-> rpc,
                           receipt |-> IF rpc = "receipt_err" THEN <<>> ELSE receipt,
                           tx |-> IF rpc = "ok" THEN tx ELSE <<>>,
                           result |-> IF rpc = "ok" THEN <<StatusOfReceipt(receipt, tx)>> ELSE <<>>]
        /\ UNCHANGED notStatusVars

StatusNext == GetStatusCall

(***************************************************************************)
(* Specifications                                                          *)
(***************************************************************************)

\* the oracle while the feed is explored: as constructed, all sources silent
PriceIdle ==
    /\ sources = InitialSources
    /\ now = 0
    /\ oracle_last_update = 0
    /\ prices = ZeroPrices
    /\ last_samples = [t \in Tokens |-> <<>>]
    /\ last_read = NoRead
    /\ last_quote = NoQuote

\* the feed while the oracle is explored: constructed on HTTP polling, never started
FeedIdle ==
    /\ FeedInit
    /\ ~alchemy_ws
    /\ ~ws_client

\* the executor while another component is explored: no wallet, nothing sent
ExecIdle ==
    /\ wallet = FALSE
    /\ mev_share_enabled = FALSE
    /\ node = <<>>
    /\ sent = <<>>
    /\ exec_call = NoExecCall

\* the transaction side while the decision side is explored
\* the other components while one of them is explored
SideIdle == RetryIdle /\ PipeIdle /\ StatusIdle

TxIdle == ExecIdle /\ WaitIdle /\ GasIdle /\ BuildIdle /\ SideIdle

\* the decision side while the transaction side is explored
DecisionIdle == FeedIdle /\ PriceIdle /\ ScanIdle /\ StratInit

FeedSpecInit == FeedInit /\ PriceIdle /\ ScanIdle /\ StratInit /\ TxIdle

FeedSpec == FeedSpecInit /\ [][FeedNext]_vars

PriceSpecInit == PriceInit /\ FeedIdle /\ ScanIdle /\ StratInit /\ TxIdle

PriceSpec == PriceSpecInit /\ [][PriceNext]_vars

FreshSpecInit == FreshInit /\ FeedIdle /\ ScanIdle /\ StratInit /\ TxIdle

FreshSpec == FreshSpecInit /\ [][FreshNext]_vars

RatioSpecInit == RatioInit /\ FeedIdle /\ ScanIdle /\ StratInit /\ TxIdle

RatioSpec == RatioSpecInit /\ [][RatioNext]_vars

ScanSpecInit == ScanInit /\ ScanPriceInit /\ FeedIdle /\ StratInit /\ TxIdle

ScanSpec == ScanSpecInit /\ [][ScanNext]_vars

IsolationSpecInit == ScanSpecInit /\ dex_order = <<"UniswapV2", "Sushiswap", "Curve">>

IsolationSpec == IsolationSpecInit /\ [][IsolationNext]_vars

ScanLoopSpecInit == ScanInit /\ ScanPriceInit /\ FeedIdle /\ StratInit /\ TxIdle

ScanLoopSpec == ScanLoopSpecInit /\ [][ScanLoopNext]_vars

ProfitSpecInit == PathInit /\ ScanPriceInit /\ FeedIdle /\ StratInit /\ TxIdle

ProfitSpec == ProfitSpecInit /\ [][ProfitNext]_vars

PathSpecInit == PathInit /\ ScanPriceInit /\ FeedIdle /\ StratInit /\ TxIdle

PathSpec == PathSpecInit /\ [][PathNext]_vars

StratSpecInit == StratInit /\ PriceIdle /\ ScanIdle /\ FeedIdle /\ TxIdle

StratSpec == StratSpecInit /\ [][StratNext]_vars

TieSpec == StratSpecInit /\ [][TieNext]_vars


ExecSpecInit == ExecInit /\ WaitIdle /\ GasIdle /\ BuildIdle /\ SideIdle /\ DecisionIdle

ExecSpec == ExecSpecInit /\ [][ExecNext]_vars

RouteSpec == ExecSpecInit /\ [][RouteNext]_vars

WaitSpecInit == WaitInit /\ GasIdle /\ BuildIdle /\ SideIdle /\ DecisionIdle

WaitSpec == WaitSpecInit /\ [][WaitNext]_vars

GasSpecInit == GasInit /\ ExecIdle /\ WaitIdle /\ BuildIdle /\ SideIdle /\ DecisionIdle

GasSpec == GasSpecInit /\ [][GasNext]_vars

GasSeqSpecInit == GasSeqInit /\ ExecIdle /\ WaitIdle /\ BuildIdle /\ SideIdle /\ DecisionIdle

GasSeqSpec == GasSeqSpecInit /\ [][GasNext]_vars

BuildSpecInit == BuildInit /\ ExecIdle /\ WaitIdle /\ GasIdle /\ SideIdle /\ DecisionIdle

BuildSpec == BuildSpecInit /\ [][BuildNext]_vars

\* the transaction side while another component is explored
MainIdle == ExecIdle /\ WaitIdle /\ GasIdle /\ BuildIdle /\ DecisionIdle

RetrySpecInit == RetryIdle /\ PipeIdle /\ StatusIdle /\ MainIdle

DeliverySpecInit == DeliveryInit /\ RetryIdle /\ StatusIdle /\ MainIdle

DeliverySpec == DeliverySpecInit /\ [][PipeNext]_vars

PipeSpecInit == PipeInit /\ RetryIdle /\ StatusIdle /\ MainIdle

RecoverSpecInit ==
    /\ PipeInit
    /\ ScanInit /\ dex_order = <<"UniswapV2", "Sushiswap", "Curve">>
    /\ ScanPriceInit /\ last_samples["USDC"] # <<>>
    /\ FeedIdle /\ StratInit
    /\ ExecIdle /\ WaitIdle /\ GasIdle /\ BuildIdle /\ RetryIdle /\ StatusIdle

RecoverSpec == RecoverSpecInit /\ [][RecoverNext]_vars

StatusSpecInit == StatusIdle /\ RetryIdle /\ PipeIdle /\ MainIdle

StatusSpec == StatusSpecInit /\ [][StatusNext]_vars

PipeSpec == PipeSpecInit /\ [][PipeNext]_vars

ScenarioSpecInit == ScenarioInit /\ FeedIdle /\ TxIdle

ScenarioSpec == ScenarioSpecInit /\ [][ScenarioNext]_vars

RetrySpec == RetrySpecInit /\ [][RetryNext]_vars

\* f returns, the task that runs the call is scheduled and its sleeps end
RetryFairSpec ==
    /\ RetrySpec
    /\ WF_vars(RetryInvoke)
    /\ WF_vars(RetryWake)

\* the task that runs the call is scheduled, its poll is answered, and time passes
WaitFairSpec ==
    /\ WaitSpec
    /\ WF_vars(WaitCheck)
    /\ WF_vars(WaitPoll)
    /\ WF_vars(WaitWake)
    /\ WF_vars(WaitTick)

(***************************************************************************)
(* Claims about the block event feed                                       *)
(***************************************************************************)

\* a step in which generation g's processing task invokes process_block
Invokes(g) == consumer[g] # "processing" /\ consumer'[g] = "processing"

\* C1: the sequence of process_block invocations is strictly increasing in
\* block number and has no duplicate, whatever numbers the block source hands
\* over (repeated and lowered numbers included): each invocation's number is
\* above the number of the invocation before it.
C1_ProcessingStrictlyIncreasing ==
    [][\A g \in Gens : Invokes(g) => cur'[g] > last_invoked]_vars

\* C2: at most one process_block invocation is in progress on the feed object,
\* after any sequence of start(), stop() and block arrivals.
C2_AtMostOneProcessing ==
    Cardinality({g \in Gens : consumer[g] = "processing"}) <= 1

\* C3: once stop() has returned for a running feed, no process_block
\* invocation of the tasks it stopped is started any more, also not for the
\* numbers already queued.
C3_NoProcessingAfterStop ==
    [][\A g \in stopped : ~Invokes(g)]_vars

\* C4: a running feed (start() has returned) always has a live producer: a
\* subscription that cannot be established, or whose stream ends, leaves a
\* producer that polls.
C4_RunningFeedHasProducer ==
    (is_running /\ task_handle # 0) => producer[task_handle] = "polling"
                                       \/ producer[task_handle] \in {"subscribing", "streaming"}

\* C5: start() on a Running feed returns without creating a queue, producer or
\* consumer; stop() on a Stopped feed returns without changing the flag or the
\* stored handle; a generation is created only by the one start() that takes the
\* feed from Stopped to Running, so concurrent start() calls create one pair.
C5_LifecycleIdempotent ==
    [][ /\ (last_call' = "start_running" /\ is_running)
            => /\ ngen' = ngen /\ is_running' /\ task_handle' = task_handle
               /\ lock_holder' = lock_holder
               /\ \A g \in Gens : (producer[g] = "none") = (producer'[g] = "none")
               /\ \A g \in Gens : (consumer[g] = "none") = (consumer'[g] = "none")
        /\ (last_call' = "stop_stopped" /\ ~is_running)
            => /\ ~is_running' /\ task_handle' = task_handle /\ producer' = producer
        /\ (ngen' # ngen) => (ngen' = ngen + 1 /\ ~is_running /\ is_running')
      ]_vars

\* C5 witness: a start() that found the feed Running has returned with the one
\* generation of the first start() in place
C5_Witness ==
    /\ last_call = "start_running"
    /\ ngen = 1
    /\ is_running
    /\ lock_holder = "none"
    /\ task_handle = 1

(***************************************************************************)
(* Claims about the price oracle                                           *)
(***************************************************************************)

\* twice the median of the values of a non-empty map f, by counting: the lower and
\* the upper middle value (the same value when the count is odd)
LowerMiddle(f) ==
    CHOOSE v \in {f[s] : s \in DOMAIN f} :
        /\ 2 * Cardinality({s \in DOMAIN f : f[s] < v}) < Cardinality(DOMAIN f)
        /\ 2 * Cardinality({s \in DOMAIN f : f[s] <= v}) >= Cardinality(DOMAIN f)
UpperMiddle(f) ==
    CHOOSE v \in {f[s] : s \in DOMAIN f} :
        /\ 2 * Cardinality({s \in DOMAIN f : f[s] > v}) < Cardinality(DOMAIN f)
        /\ 2 * Cardinality({s \in DOMAIN f : f[s] >= v}) >= Cardinality(DOMAIN f)
TwiceMedian(f) == LowerMiddle(f) + UpperMiddle(f)

\* the sources whose sample deviates from the median by at most the threshold,
\* in percent of the median
WithinThreshold(f) ==
    {s \in DOMAIN f : 100 * Abs(2 * f[s] - TwiceMedian(f)) <= MaxPriceDeviation * TwiceMedian(f)}

Refreshed(t) == DOMAIN last_samples[t] # {}

\* C6: for every token whose latest pass collected samples, the stored USD
\* price is the arithmetic mean of the samples within the deviation threshold
\* of the median (and those samples are the stored sample set), or the median
\* when every sample is rejected; {998, 1000, 1050} at 1% gives 999 with 1050
\* rejected.
C6_ConsensusIsMeanOfAccepted ==
    \A t \in Tokens : Refreshed(t) =>
        LET f == last_samples[t]
            acc == WithinThreshold(f)
            p == prices[t].price_usd
        IN /\ DOMAIN prices[t].sources = acc
           /\ \A s \in acc : prices[t].sources[s] = f[s]
           /\ acc # {} => p[1] * Cardinality(acc) = SumVals(f, acc) * p[2]
           /\ acc = {} => 2 * p[1] = TwiceMedian(f) * p[2]
           /\ {f[s] : s \in DOMAIN f} = {998, 1000, 1050} /\ Cardinality(DOMAIN f) = 3
                => p = <<999, 1>> /\ {f[s] : s \in acc} = {998, 1000}

\* some update_prices pass after the one of create_oracle has run: USDC's
\* reference price was derived from another ETH price than the stored one
LaterPass ==
    /\ RatPos(prices["USDC"].price_eth)
    /\ RatPos(prices["ETH"].price_usd)
    /\ prices["USDC"].price_eth # RatDiv(prices["USDC"].price_usd, prices["ETH"].price_usd)

\* C6 witness: after a later pass, one token refreshed from {998, 1000, 1050},
\* the other from two samples that are both rejected
C6_Witness ==
    /\ LaterPass
    /\ DOMAIN last_samples["ETH"] = InitialSources
    /\ prices["ETH"].price_usd = <<999, 1>>
    /\ Cardinality(DOMAIN last_samples["USDC"]) = 2
    /\ DOMAIN prices["USDC"].sources = {}
    /\ prices["USDC"].price_usd = <<1024, 1>>

C8_NoDataKeepsRecord ==
    [][\A t \in Tokens : ~Refreshed(t)' => prices'[t] = prices[t]]_vars

\* C8 witness: a pass at a later time collected nothing for a token that has a
\* price from an earlier pass, while the other token was refreshed
C8_Witness ==
    \E t, u \in Tokens :
        /\ ~Refreshed(t)
        /\ RatPos(prices[t].price_usd)
        /\ prices[t].last_update < oracle_last_update
        /\ Refreshed(u)
        /\ prices[u].last_update = oracle_last_update

\* C9: after a pass, the numeraire has reference price 1 and every other token
\* refreshed in the pass has reference price = its USD price / the numeraire's
\* USD price of that same pass.
C9_ReferencePriceFromSamePass ==
    Refreshed(EthAddress) =>
        /\ prices[EthAddress].price_eth = One
        /\ \A t \in Tokens \ {EthAddress} : Refreshed(t) =>
              prices[t].price_eth = RatDiv(prices[t].price_usd, prices[EthAddress].price_usd)

\* C10: a price returned by get_price_usd / get_price_eth is never older than
\* the freshness window (the pass a stale read runs takes no time here).
C10_ReadIsFresh ==
    last_read.op # "none" => last_read.age <= StaleAfter

\* C11: get_price_in_token returns a value exactly when both tokens have a
\* record and the quote's cached USD price is positive, and the value is then
\* the quotient of the two cached USD prices; in every other case (a token
\* without a record, a quote price that is zero or below) it returns an error.
C11_RatioOrFailure ==
    [][last_quote' # last_quote =>
         LET r == last_quote'
             tracked == r.base \in DOMAIN prices' /\ r.quote \in DOMAIN prices'
         IN /\ (r.op = "ok") = (tracked /\ RatPos(prices'[r.quote].price_usd))
            /\ r.op = "ok" =>
                  r.value = RatDiv(prices'[r.base].price_usd, prices'[r.quote].price_usd)
      ]_vars

\* C11 witness: a quotient other than 1 was returned
C11_Witness ==
    /\ last_quote.op = "ok"
    /\ last_quote.base # last_quote.quote
    /\ RatPos(last_quote.value)
    /\ last_quote.value # One

\* C11 witness of the failure: the quote has a record whose price is still zero
C11_WitnessZero ==
    /\ last_quote.op = "err"
    /\ last_quote.base \in Tokens
    /\ last_quote.quote \in Tokens
    /\ prices[last_quote.quote].price_usd = Zero

(***************************************************************************)
(* Claims about the opportunity scanner                                    *)
(***************************************************************************)

\* the output amounts the venues answered for the pair p in the latest scan
Answered(p) == {v \in Venues : last_quotes[p][v] # QuoteFailed}
MaxOut(p) == CHOOSE x \in {last_quotes[p][v] : v \in Answered(p)} :
                \A v \in Answered(p) : last_quotes[p][v] <= x
MinOut(p) == CHOOSE x \in {last_quotes[p][v] : v \in Answered(p)} :
                \A v \in Answered(p) : last_quotes[p][v] >= x

\* the opportunities of the latest scan for the pair p
OppsOf(p) ==
    {k \in 1..Len(opportunities) :
        /\ opportunities[k].token_path[1] = ConfigTokens[p[1]].symbol
        /\ opportunities[k].token_path[2] = ConfigTokens[p[2]].symbol}

\* C12: a pair for which fewer than two venues answered in a scan has no
\* opportunity in that scan's result.
C12_FewerThanTwoQuotesNoOpportunity ==
    \A p \in QuotedPairs : Cardinality(Answered(p)) < 2 => OppsOf(p) = {}

\* C12 witness: a scan in which one venue answered for a pair, while the
\* other pair produced an opportunity
C12_Witness ==
    \E p, r \in QuotedPairs :
        /\ Cardinality(Answered(p)) = 1
        /\ OppsOf(p) = {}
        /\ OppsOf(r) # {}

\* C13: every opportunity of a scan has net profit > 0, net profit = gross
\* profit - gas estimate, and gross profit = (largest - smallest output the
\* venues answered for the pair) / 10^decimals * the USD price of the output
\* token, with the largest output above the smallest; every opportunity is
\* for a quoted pair.
C13_OpportunityProfit ==
    /\ \A k \in 1..Len(opportunities) : \E p \in QuotedPairs : k \in OppsOf(p)
    /\ \A p \in QuotedPairs : \A k \in OppsOf(p) :
          LET opp == opportunities[k]
              price == prices[ConfigTokens[p[2]].symbol].price_usd
          IN /\ RatPos(opp.net_profit)
             /\ opp.net_profit = RatSub(opp.estimated_profit, opp.estimated_gas_cost)
             /\ MaxOut(p) > MinOut(p)
             /\ opp.estimated_profit =
                   Rat((MaxOut(p) - MinOut(p)) * price[1], Pow10(ConfigTokens[p[2]].decimals) * price[2])

\* C13 witness: a scan after the freshness window returned an opportunity for
\* each pair
C13_Witness ==
    /\ Len(opportunities) = 2
    /\ OppsOf(<<1, 2>>) # {}
    /\ OppsOf(<<2, 1>>) # {}
    /\ opportunities[1].timestamp > 0

\* C13 witness of the filter: a spread whose USD value is below the gas
\* estimate gave no opportunity
C13_WitnessFiltered ==
    /\ Cardinality(Answered(<<1, 2>>)) >= 2
    /\ MaxOut(<<1, 2>>) = MinOut(<<1, 2>>) + 1
    /\ RatPos(prices["USDC"].price_usd)
    /\ OppsOf(<<1, 2>>) = {}

\* C14: the identifier of an opportunity is the same for every order in
\* which the venues can be iterated, given the answers of the venues: a scan
\* over the same answers in another order yields the same identifier (the
\* identifier has no time in it).
C14_IdIndependentOfVenueOrder ==
    \A p \in QuotedPairs : \A k \in OppsOf(p) : \A order \in VenueOrders :
        LET quotes == GetQuotes(last_quotes[p], order)
        IN opportunities[k].id =
              OpportunityId(ConfigTokens[p[1]].symbol, ConfigTokens[p[2]].symbol,
                            BestBuyQuote(quotes, 1, NoneQuote).dex_type,
                            BestSellQuote(quotes, 1, NoneQuote).dex_type)

\* C15: start_continuous_scanning with the flag set spawns no loop and
\* changes nothing; stop_continuous_scanning with the flag clear changes
\* nothing; a loop is spawned only by a start that found the flag clear.
C15_ScanLifecycleIdempotent ==
    [][ /\ (last_scan_call' # last_scan_call /\ last_scan_call'.op = "start" /\ is_scanning)
            => /\ UNCHANGED <<is_scanning, nloops, scan_loop, dex_order, opportunities, last_quotes, scan_prices>>
               /\ UNCHANGED priceVars
        /\ (last_scan_call' # last_scan_call /\ last_scan_call'.op = "stop" /\ ~is_scanning)
            => /\ UNCHANGED <<is_scanning, nloops, scan_loop, dex_order, opportunities, last_quotes, scan_prices>>
               /\ UNCHANGED priceVars
        /\ nloops' # nloops
            => /\ nloops' = nloops + 1
               /\ ~is_scanning /\ is_scanning'
               /\ last_scan_call'.op = "start"
      ]_vars

\* C15 witness: a start found the flag set while the one loop of the first
\* start was scanning
C15_Witness ==
    /\ last_scan_call = [op |-> "start", found |-> TRUE, bit |-> 0]
    /\ is_scanning
    /\ nloops = 1
    /\ scan_loop[1] = "scanning"

(***************************************************************************)
(* Claims about the strategy engine                                        *)
(***************************************************************************)

\* the net profit of op with the gas estimate of its path length
RecomputedNet(op) == RatSub(op.estimated_profit, EstimatedGas(Len(op.token_path)))

\* x is above the configured minimum threshold
OverMin(x) == x[1] > MinProfitThreshold * x[2]

\* the positions of the input list that pass the threshold as supplied and as
\* recomputed
Survivors ==
    {k \in DOMAIN eval_input :
        OverMin(eval_input[k].net_profit) /\ OverMin(RecomputedNet(eval_input[k]))}

\* r is op with nothing but estimated_gas_cost and net_profit changed
SameButGasAndNet(op, r) ==
    /\ r.id = op.id
    /\ r.token_path = op.token_path
    /\ r.estimated_profit = op.estimated_profit

\* C16: evaluate_opportunities returns at most one opportunity; the one it
\* returns passed the minimum threshold with the net profit as supplied and
\* with the net profit as recomputed; it returns none when the list is empty
\* or nothing passes both (and only then).
C16_NeverBelowThreshold ==
    /\ Len(eval_result) <= 1
    /\ eval_result # <<>> =>
          /\ OverMin(eval_result[1].net_profit)
          /\ eval_result[1].net_profit = RecomputedNet(eval_result[1])
          /\ \E k \in DOMAIN eval_input :
                /\ SameButGasAndNet(eval_input[k], eval_result[1])
                /\ OverMin(eval_input[k].net_profit)
    /\ (eval_result = <<>>) = (Survivors = {})

\* C16 witness: a list whose first opportunity passes as supplied and fails as
\* recomputed, and whose second one is returned
C16_Witness ==
    /\ Len(eval_input) = 2
    /\ OverMin(eval_input[1].net_profit)
    /\ ~OverMin(RecomputedNet(eval_input[1]))
    /\ eval_result # <<>>
    /\ eval_result[1].id = eval_input[2].id

\* C17: the returned opportunity is a survivor of the input list with only
\* its gas cost and net profit rewritten, and no survivor has a larger
\* recomputed net profit.
C17_BestSurvivorReturned ==
    eval_result # <<>> =>
        /\ \E k \in Survivors :
              /\ SameButGasAndNet(eval_input[k], eval_result[1])
              /\ eval_result[1].estimated_gas_cost = EstimatedGas(Len(eval_input[k].token_path))
              /\ eval_result[1].net_profit = RecomputedNet(eval_input[k])
        /\ \A k \in Survivors : ~RatGt(RecomputedNet(eval_input[k]), eval_result[1].net_profit)

\* C17 witness: two survivors with different recomputed net profits, the
\* second of the list returned
C17_Witness ==
    /\ Survivors = {1, 2}
    /\ RatGt(RecomputedNet(eval_input[2]), RecomputedNet(eval_input[1]))
    /\ eval_result # <<>>
    /\ eval_result[1].id = eval_input[2].id

\* C18: of any two opportunities whose gas estimate evaluate_opportunities
\* recomputed, the one with the shorter token path has no larger estimate.
C18_GasMonotoneInPathLength ==
    \A i, j \in DOMAIN eval_gas :
        eval_gas[i][1] < eval_gas[j][1] => ~RatGt(eval_gas[i][2], eval_gas[j][2])

\* the configured decimals of a token
DecimalsOf(t) ==
    StrategyTokens[CHOOSE k \in 1..Len(StrategyTokens) :
                      StrategyTokens[k].symbol = t /\ StrategyTokens[k].valid].decimals

\* what the last call's hops gained, in USD at the oracle's prices: for a
\* circular path the output less the input, otherwise the value of the
\* output less the value of the input
SimulatedGain ==
    LET p == calc_call.path
        from == p[1]
        final == p[Len(p)]
        out == calc_call.current_amount
        in == calc_call.input_amount
    IN IF from = final
       THEN IF out <= in THEN <<out - in, 1>>
            ELSE RatMul(Rat(out - in, Pow10(DecimalsOf(from))), prices[from].price_usd)
       ELSE RatSub(RatMul(Rat(out, Pow10(DecimalsOf(final))), prices[final].price_usd),
                   RatMul(<<calc_call.amount, 1>>, prices[from].price_usd))

\* the gas cost modeled for the last call's path and venues
ModeledGas == EstimateGasCost(Len(calc_call.path), calc_call.dex_used)

\* the last call's hops gained more than the modeled gas cost
GainExceedsGas == RatPos(SimulatedGain) /\ RatGt(SimulatedGain, ModeledGas)

\* C19: whenever calculate_expected_profit returns a value, the value is not
\* negative, and it is exactly 0 when the simulated hops give no gain or a
\* gain that does not exceed the modeled gas cost.
C19_ProfitNeverNegative ==
    (calc_call.op = "calc" /\ calc_call.ok) =>
        /\ calc_call.value[1] >= 0
        /\ ~GainExceedsGas => calc_call.value = Zero

\* a call that returned 0 for a gain that is positive but within the gas cost
C19_Witness ==
    /\ calc_call.op = "calc"
    /\ calc_call.ok
    /\ calc_call.value = Zero
    /\ RatPos(SimulatedGain)
    /\ ~GainExceedsGas

\* a call that returned a positive net profit
C19_WitnessProfit ==
    /\ calc_call.op = "calc"
    /\ calc_call.ok
    /\ RatPos(calc_call.value)
    /\ calc_call.path[1] # calc_call.path[Len(calc_call.path)]

\* the candidates of the last find_optimal_path whose profit was computed and
\* is strictly positive
Profitable ==
    {k \in DOMAIN path_call.profits :
        path_call.profits[k].ok /\ RatPos(path_call.profits[k].value)}

\* the tracked tokens other than the ends of the last find_optimal_path
OtherTracked ==
    {StrategyTokens[k].symbol : k \in {i \in 1..Len(StrategyTokens) : StrategyTokens[i].valid}}
        \ {path_call.from, path_call.to}

\* the paths whose profit the last find_optimal_path computed
Considered == {path_call.candidates[k] : k \in DOMAIN path_call.candidates}

\* C20: find_optimal_path fails exactly when no candidate path has a strictly
\* positive expected net profit, a failed computation counting as not
\* profitable; otherwise it returns a candidate whose expected net profit is
\* the largest, from the first token to the second through at most two of the
\* other tracked tokens. With venues, the candidates are the direct path, a
\* path through every other tracked token and a path through every pair.
C20_OptimalPath ==
    path_call.op = "find" =>
        /\ (~path_call.ok) = (Profitable = {})
        /\ path_call.ok =>
              /\ \E k \in Profitable :
                    /\ path_call.candidates[k] = path_call.path
                    /\ \A j \in Profitable :
                          ~RatGt(path_call.profits[j].value, path_call.profits[k].value)
              /\ Len(path_call.path) \in 2..4
              /\ path_call.path[1] = path_call.from
              /\ path_call.path[Len(path_call.path)] = path_call.to
              /\ \A i \in 2..(Len(path_call.path) - 1) : path_call.path[i] \in OtherTracked
        /\ dex_order # <<>> =>
              /\ Len(path_call.profits) = Len(path_call.candidates)
              /\ <<path_call.from, path_call.to>> \in Considered
              /\ \A x \in OtherTracked : <<path_call.from, x, path_call.to>> \in Considered
              /\ \A x, y \in OtherTracked :
                    x # y => \/ <<path_call.from, x, y, path_call.to>> \in Considered
                             \/ <<path_call.from, y, x, path_call.to>> \in Considered

\* a call that returned a path through an intermediate token although the
\* direct path was profitable too
C20_Witness ==
    /\ path_call.op = "find"
    /\ path_call.ok
    /\ Len(path_call.path) > 2
    /\ 1 \in Profitable
    /\ Cardinality(Profitable) >= 2

\* a call that failed although a candidate's profit was computed, as 0
C20_WitnessFail ==
    /\ path_call.op = "find"
    /\ ~path_call.ok
    /\ \E k \in DOMAIN path_call.profits :
          path_call.profits[k].ok /\ path_call.profits[k].value = Zero

(***************************************************************************)
(* Claims about the transaction executor                                   *)
(***************************************************************************)

\* C21: every payload handed to a submission channel, private or public, is
\* a transaction that was gas-priced and then signed, in that order, before
\* it was submitted; no unsigned payload reaches a channel.
C21_SignedBeforeSubmitted ==
    \A i \in DOMAIN sent :
        sent[i].steps = <<"Built", "GasPriced", "Signed", "Submitted">>

\* a request that breaks a structural invariant: no recipient, a zero gas
\* limit or a payload that is not a call
Malformed(tx) ==
    \/ tx.to = "none"
    \/ tx.gas = 0
    \/ tx.data = "garbage"

\* C22: execute_transaction of a transaction with an empty recipient, a zero
\* gas limit or a malformed payload fails, and no such transaction is ever
\* handed to the private channel or the public network.
C22_InvalidTransactionNotSent ==
    /\ (exec_call.op = "execute" /\ Malformed(exec_call.tx[1])) => ~exec_call.ok
    /\ \A i \in DOMAIN sent : sent[i].kind = "arbitrage" => ~Malformed(sent[i])

\* the latest call was a cancel_transaction that found the transaction and
\* built its replacement, which is the last payload handed over
ReplacementBuilt ==
    /\ exec_call.op = "cancel"
    /\ exec_call.found # <<>>
    /\ wallet

\* C25: the replacement built for a pending original with a gas price has
\* the original's nonce, zero value, the original's sender as recipient and
\* a gas price of at least 120 % of the original's.
C25_ReplacementOutbids ==
    (/\ ReplacementBuilt
     /\ exec_call.found[1].status = "pending"
     /\ exec_call.found[1].gas_price # NoGasPrice)
    => LET orig == exec_call.found[1]
           r == sent[Len(sent)]
       IN /\ r.kind = "cancel"
          /\ r.nonce = orig.nonce
          /\ r.value = 0
          /\ r.to = orig.from
          /\ r.gas_price * CancelFactorDen >= orig.gas_price * CancelFactorNum

\* C26: a replacement is handed to the network only for a transaction that
\* the node knows and that is still pending when cancel_transaction is
\* called; for a confirmed, reverted or unknown transaction none is sent.
C26_CancelOnlyWhilePending ==
    [][(sent' # sent /\ sent'[Len(sent')].kind = "cancel")
        => LET h == sent'[Len(sent')].of
           IN h \in 1..Len(node) /\ node[h].status = "pending"]_vars

\* C23: wait_for_transaction returns Ok only with a status that carries an
\* inclusion block number, never the pending snapshot; every other return is
\* a failure, by timeout or by a polling error.
C23_OkOnlyWithBlockNumber ==
    /\ wait_result.ok =>
          /\ wait_result.kind = "status"
          /\ wait_result.status[1].block_number # NoBlock
          /\ wait_result.status[1].error # "Transaction pending"
    /\ wait_pc = "done" => wait_result.kind \in {"status", "timeout", "rpc"}
    /\ (wait_pc = "done" /\ ~wait_result.ok) => wait_result.kind \in {"timeout", "rpc"}

\* the call slept at least once and then returned the status of an included
\* transaction
C23_Witness ==
    /\ wait_pc = "done"
    /\ wait_result.ok
    /\ wait_result.status[1].block_number # NoBlock
    /\ wake_at > start_time

\* the transaction the call waits for has not been included in a block
NotMined == GetTransactionStatus(wait_hash).block_number = NoBlock

\* C24: a wait_for_transaction call ends; when the transaction has not been
\* mined and no poll failed it ends with the timeout failure, a timeout
\* failure comes only when at least the timeout has passed since the call
\* started, and the return on expiry sends nothing and changes nothing on
\* the executor or the node.
C24_TimeoutAfterT ==
    /\ [](wait_result.kind = "timeout" => wait_result.at - start_time >= wait_timeout)
    /\ []((wait_pc = "done" /\ NotMined /\ wait_result.kind # "rpc")
            => wait_result.kind = "timeout")
    /\ (wait_pc \in {"check", "poll", "sleep"}) ~> (wait_pc = "done")
    /\ [][(wait_pc # "done" /\ wait_pc' = "done" /\ wait_result'.kind = "timeout")
            => UNCHANGED execVars]_vars

\* a call with a timeout of 2 s for a transaction that is not mined has
\* ended with the timeout failure, more than 2 s after it started
C24_Witness ==
    /\ wait_pc = "done"
    /\ wait_result.kind = "timeout"
    /\ wait_timeout = 2
    /\ NotMined
    /\ wait_result.at - start_time > wait_timeout

(***************************************************************************)
(* Claims about the gas optimizer                                          *)
(***************************************************************************)

\* the latest call to return was a successful get_optimal_gas_price
OptimalReturned == gas_result.op = "optimal" /\ gas_result.ok

\* C27: the price get_optimal_gas_price returns is never above the ceiling;
\* under Eip1559 it is the smaller of the ceiling and base fee times the
\* multiplier plus priority fee, for the fees the call read, and under
\* Dynamic the smaller of the ceiling and the estimate the call read.
C27_PriceCapped ==
    OptimalReturned =>
        /\ gas_result.price <= GasCeiling
        /\ gas_strategy = "Eip1559" =>
              LET scaled == MulDiv(gas_result.base.val, BaseFeeMultiplierNum,
                                   BaseFeeMultiplierDen)
                  fee == scaled + gas_result.prio.val
              IN gas_result.price = IF fee < GasCeiling THEN fee ELSE GasCeiling
        /\ gas_strategy = "Dynamic" =>
              gas_result.price = IF gas_result.est.val < GasCeiling
                                 THEN gas_result.est.val ELSE GasCeiling

\* an Eip1559 call returned the ceiling because the fees it read add up to more
C27_Witness ==
    /\ OptimalReturned
    /\ gas_strategy = "Eip1559"
    /\ MaxFeePerGas(gas_result.base.val, gas_result.prio.val) > GasCeiling
    /\ gas_result.price = GasCeiling

\* C28: no two refreshes of the estimate start less than 15 seconds apart,
\* whatever calls are made and however they interleave.
C28_OneRefreshPerWindow ==
    \A i, j \in DOMAIN refresh_starts :
        i < j => refresh_starts[j] - refresh_starts[i] >= RefreshWindow

\* no task is inside update_gas_price_estimate
NoRefreshRunning ==
    \A c \in GasCallers : gcall[c].pc \notin {"block", "history", "price"}

\* C29: outside a running refresh the base fee, the priority fee and the gas
\* price are those of one refresh, also after a refresh that failed
\* part-way, and the pair a reader gets is the base fee and the priority
\* fee of one refresh.
C29_AtomicRefresh ==
    /\ NoRefreshRunning =>
          /\ current_base_fee.gen = current_priority_fee.gen
          /\ current_base_fee.gen = current_gas_price.gen
    /\ (gas_result.ok /\ gas_result.base # NoField) =>
          gas_result.base.gen = gas_result.prio.gen

(***************************************************************************)
(* Claims about the transaction builder                                    *)
(***************************************************************************)

\* C30: a build_arbitrage_transaction call made without a contract manager,
\* or with a manager that has no contract address, returns a transaction
\* whose request is the placeholder, for every opportunity: it neither
\* fails nor panics.
C30_DegradedBuildSucceeds ==
    (build_call.op # <<>> /\ build_call.manager \in {"none", "undeployed"})
        => /\ build_call.result.outcome = "ok"
           /\ build_call.result.request = "placeholder"

(***************************************************************************)
(* Claims about retry_with_backoff                                         *)
(***************************************************************************)

RECURSIVE Pow2(_)
Pow2(k) == IF k = 0 THEN 1 ELSE 2 * Pow2(k - 1)

\* every invocation of f before the last one returned Err
EarlierFailed == \A i \in 1..(Len(outcomes) - 1) : ~outcomes[i]

\* C31: retry_with_backoff terminates; it invokes f at most max_retries + 1
\* times; a returned Ok is the result of the first invocation that succeeded
\* and no invocation follows it; a returned Err is the error of invocation
\* max_retries + 1, after all invocations failed; and the sleep before the
\* k-th retry lasts initial_backoff * 2^(k-1).
C31_RetryTerminates ==
    /\ [](Len(outcomes) <= max_retries + 1)
    /\ []((retry_pc = "done" /\ retry_result.ok) =>
            /\ retry_result.of = Len(outcomes)
            /\ outcomes[Len(outcomes)]
            /\ EarlierFailed)
    /\ []((retry_pc = "done" /\ ~retry_result.ok) =>
            /\ retry_result.of = Len(outcomes)
            /\ Len(outcomes) = max_retries + 1
            /\ ~outcomes[Len(outcomes)]
            /\ EarlierFailed)
    /\ [](/\ Len(slept) = IF retry_pc = "done" THEN Len(outcomes) - 1 ELSE Len(outcomes)
          /\ \A k \in 1..Len(slept) : slept[k] = initial_backoff * Pow2(k - 1))
    /\ [][retry_pc = "done" => outcomes' = outcomes]_vars
    /\ (retry_pc = "call") ~> (retry_pc = "done")

\* a call with max_retries = 2 and initial_backoff = 3 s has failed three
\* times, has slept 3 s and 6 s, and has returned the third error
C31_Witness ==
    /\ retry_pc = "done"
    /\ ~retry_result.ok
    /\ max_retries = 2
    /\ outcomes = <<FALSE, FALSE, FALSE>>
    /\ slept = <<3, 6>>

(***************************************************************************)
(* Claims about the two-venue scenario                                     *)
(***************************************************************************)

\* the positions of the ETH -> USDC opportunities in a list
EthUsdc(list) == {k \in DOMAIN list : list[k].token_path = <<"ETH", "USDC", "ETH">>}

\* a scan() of the scenario has returned
Scanned == \E qs \in ScenarioQuotes : last_quotes = qs

\* C32: with two venues quoting 1 ETH -> 1000 USDC and 1 ETH -> 990 USDC,
\* USDC at $1, the scanner's gas cost of $0.01 and a threshold of $5, scan()
\* returns exactly one opportunity for ETH -> USDC, with estimated profit $10
\* and net profit $9.99, and evaluate_opportunities on the returned list
\* returns that opportunity.
C32_ScenarioYieldsOneOpportunity ==
    /\ Scanned =>
          /\ Cardinality(EthUsdc(opportunities)) = 1
          /\ \A k \in EthUsdc(opportunities) :
                /\ opportunities[k].estimated_profit = <<10, 1>>
                /\ opportunities[k].estimated_gas_cost = <<1, 100>>
                /\ opportunities[k].net_profit = <<999, 100>>
    /\ eval_input # <<>> =>
          /\ eval_result # <<>>
          /\ \E k \in EthUsdc(eval_input) :
                /\ eval_result[1].id = eval_input[k].id
                /\ eval_result[1].token_path = eval_input[k].token_path
                /\ eval_result[1].source_dex = eval_input[k].source_dex
                /\ eval_result[1].target_dex = eval_input[k].target_dex
                /\ eval_result[1].estimated_profit = eval_input[k].estimated_profit

\* a scan that also found a USDC -> ETH spread has returned two opportunities,
\* and evaluate_opportunities has returned the ETH -> USDC one
C32_Witness ==
    /\ Scanned
    /\ Len(opportunities) = 2
    /\ eval_input = opportunities
    /\ eval_result # <<>>
    /\ eval_result[1].token_path = <<"ETH", "USDC", "ETH">>
    /\ eval_result[1].source_dex = "Sushiswap"

(***************************************************************************)
(* Claims about the producer task and the processing task                  *)
(***************************************************************************)

\* the number the producer has taken to tx.send and that is not queued yet
InFlight == IF Len(emitted) > Len(enqueued) THEN <<emitted[Len(emitted)]>> ELSE <<>>

TraceCalls == [k \in DOMAIN pb_trace |-> pb_trace[k][1]]

\* C34: process_block for a block the node does not know returns Ok without
\* a price update or a scan; for a block that is found the price update has
\* returned Ok before the scan starts; and after a price update that failed
\* there is no scan and the call returns the error.
C34_RefreshBeforeScan ==
    /\ (pb_trace # <<>> /\ pb_trace[1] = <<"get_block", "none">>) =>
          (TraceCalls = <<"get_block">> /\ pb_result = "ok")
    /\ cons_pc = "update_prices" => pb_trace = << <<"get_block", "found">> >>
    /\ (cons_pc = "scan" \/ \E k \in DOMAIN pb_trace : TraceCalls[k] = "scan") =>
          /\ Len(pb_trace) >= 2
          /\ pb_trace[1] = <<"get_block", "found">>
          /\ pb_trace[2] = <<"update_prices", "ok">>
          /\ \A k \in DOMAIN pb_trace : TraceCalls[k] = "scan" => k = 3
    /\ \A k \in DOMAIN pb_trace :
          (TraceCalls[k] = "update_prices" /\ pb_trace[k][2] # "ok") =>
              (Len(pb_trace) = k /\ pb_result = "err")
    /\ AfterUpdatePrices("err") = "err"

\* the second number of the queue was a block the node does not know:
\* process_block asked for it and returned Ok
C34_Witness ==
    /\ handled = <<1, 2>>
    /\ pb_trace = << <<"get_block", "none">> >>
    /\ pb_result = "ok"
    /\ cons_pc = "recv"

\* the net profit scan() computes for the pair p from the venues that
\* answered: (largest - smallest output) / 10^decimals * price - 0.01
NetOf(p) ==
    LET price == scan_prices[ConfigTokens[p[2]].symbol].price_usd
    IN RatSub(Rat((MaxOut(p) - MinOut(p)) * price[1],
                  Pow10(ConfigTokens[p[2]].decimals) * price[2]),
              ScanGasCost)

\* the result of the latest scan, at the prices the scan has left
ScanUsesAnswers ==
    \A p \in QuotedPairs :
        (Cardinality(Answered(p)) >= 2 /\ MaxOut(p) > MinOut(p) /\ RatPos(NetOf(p)))
            => /\ Cardinality(OppsOf(p)) = 1
               /\ \A k \in OppsOf(p) : opportunities[k].net_profit = NetOf(p)

C36_SuccessIffNonZero ==
    status_call.rpc = "ok" =>
        /\ status_call.result # <<>>
        /\ LET result == status_call.result[1]
           IN IF status_call.receipt = <<>>
              THEN result.block_number = <<>> /\ ~result.success
              ELSE /\ result.success <=> UnwrapOrDefault(status_call.receipt[1].status) # 0
                   /\ ~result.success => result.error = <<"Transaction reverted">>

\* the payloads the step hands to a channel
NewlySent == SubSeq(sent', Len(sent) + 1, Len(sent'))

\* the channel the routing flag of the executed transaction names
FlaggedChannel(call) == IF call.tx[1].use_mev_share THEN "mev_share" ELSE "public"

\* C37: payloads are only ever added to what was submitted; a call of
\* execute_transaction or cancel_transaction on an executor without wallet
\* fails and submits nothing, whatever the routing flag; an
\* execute_transaction that succeeds submits exactly one payload; and every
\* execute_transaction, failed or not, submits at most one payload and only to
\* the channel its routing flag names (MEV-Share when use_mev_share is set,
\* the node otherwise), so a refusal of one channel is never followed by a
\* submission to the other.
C37_NoWalletNoSubmissionAndOneRoute ==
    [][(exec_call' # exec_call \/ sent' # sent) =>
        /\ Len(sent') >= Len(sent)
        /\ SubSeq(sent', 1, Len(sent)) = sent
        /\ exec_call'.op \in {"execute", "cancel"}
        /\ ~wallet => (~exec_call'.ok /\ sent' = sent)
        /\ exec_call'.op = "execute" =>
            /\ Len(NewlySent) <= 1
            /\ \A i \in 1..Len(NewlySent) : NewlySent[i].channel = FlaggedChannel(exec_call')
            /\ exec_call'.ok => Len(NewlySent) = 1]_vars

\* an execute_transaction with the routing flag set has succeeded and its
\* payload is the only one submitted, on the private channel
C37_Witness ==
    /\ exec_call.op = "execute"
    /\ exec_call.ok
    /\ exec_call.tx[1].use_mev_share
    /\ Len(sent) = 1
    /\ sent[1].channel = "mev_share"

\* the background loops that have been spawned and have not returned
AliveLoops == {l \in Loops : scan_loop[l] \in {"checking", "scanning", "sleeping"}}

\* C38: whatever start_continuous_scanning and stop_continuous_scanning
\* calls have been made and however they interleave with the loop's steps, at
\* most one background loop is alive.
C38_AtMostOneLoopAlive == Cardinality(AliveLoops) <= 1

\* process_block has just returned Err
ProcessBlockFailed == pb_result = "running" /\ pb_result' = "err"

\* C39: a process_block that returns Err sends the processing task back to
\* rx.recv() with the queue as it was, the processing task returns only when
\* the queue is empty and the sender dropped, and by then process_block has
\* been invoked for every number that was queued; a poll of the polling
\* producer, failed or not, leads to the send or to the sleep and the sleep to
\* the next poll, and the polling producer returns only when the receiver is
\* gone; a background scan, whatever it got, is followed by the sleep and
\* the sleep by the next check of the flag, and a loop returns only at a
\* check that finds the flag clear.
C39_FailuresDoNotEndLoops ==
    /\ [][ProcessBlockFailed => (cons_pc' = "recv" /\ queue' = queue)]_vars
    /\ [](cons_pc = "ended" => (queue = <<>> /\ ~SenderAlive /\ handled = enqueued))
    /\ [][(feed_kind = "poll" /\ prod_pc' # prod_pc) =>
            \/ prod_pc = "next" /\ prod_pc' \in {"send", "sleep"}
            \/ prod_pc = "sleep" /\ prod_pc' = "next"
            \/ prod_pc = "send" /\ prod_pc' = "sleep" /\ ReceiverAlive
            \/ prod_pc = "send" /\ prod_pc' = "ended" /\ ~ReceiverAlive]_vars
    /\ [][\A l \in Loops : scan_loop'[l] # scan_loop[l] =>
            \/ scan_loop[l] = "none" /\ scan_loop'[l] = "checking"
            \/ scan_loop[l] = "checking" /\ scan_loop'[l] = (IF is_scanning THEN "scanning" ELSE "ended")
            \/ scan_loop[l] = "scanning" /\ scan_loop'[l] = "sleeping"
            \/ scan_loop[l] = "sleeping" /\ scan_loop'[l] = "checking"]_vars

\* process_block has failed for block 1 while block 2 is queued and the
\* processing task is back at rx.recv(); the polling producer sleeps before
\* its next poll; a background loop sleeps after a scan in which no venue
\* answered
C39_Witness ==
    /\ feed_kind = "poll"
    /\ pb_result = "err"
    /\ handled = <<1>>
    /\ queue = <<2>>
    /\ cons_pc = "recv"
    /\ prod_pc = "sleep"
    /\ \E l \in Loops : scan_loop[l] = "sleeping"
    /\ opportunities = <<>>

\* the survivors no other survivor beats on the recomputed net profit
TopSurvivors ==
    {k \in Survivors : \A j \in Survivors : ~RatGt(RecomputedNet(eval_input[j]), RecomputedNet(eval_input[k]))}

\* the first position of the input list among them
FirstTop == CHOOSE k \in TopSurvivors : \A j \in TopSurvivors : k <= j

\* C40: when something survives, the opportunity returned is the one at the
\* first position of the input list among the survivors with the highest
\* recomputed net profit: the input list alone decides the winner, and of
\* several tied opportunities the earliest in the list wins.
C40_FirstOfTiesWins ==
    Survivors # {} =>
        /\ eval_result # <<>>
        /\ SameButGasAndNet(eval_input[FirstTop], eval_result[1])

\* two different opportunities of the list tie on the highest recomputed net
\* profit, the later one of the list is not returned and the earlier one is
C40_Witness ==
    /\ \E i, j \in TopSurvivors : i < j /\ eval_input[i].id # eval_input[j].id
    /\ eval_result # <<>>
    /\ eval_result[1].id = eval_input[FirstTop].id
    /\ \E j \in TopSurvivors : eval_result[1].id # eval_input[j].id

====
